---- MODULE Spec2Model ----
(***************************************************************************)
(* Verification model of the polymarket arbitrage agent.                   *)
(*                                                                         *)
(* Numbers that the program keeps as floats in [0,1] (prices, relevance,   *)
(* confidence, margins) are kept here as integers in hundredths, so 0.75   *)
(* is 75.  A product of two of them (potential_profit) is therefore in     *)
(* ten-thousandths: 0.1125 is 1125.  The arithmetic is exact decimal       *)
(* arithmetic; binary floating point rounding is not modelled.             *)
(***************************************************************************)
EXTENDS Integers, Sequences, FiniteSets, TLC

VARIABLES
    \* ---- ArbitrageDetector (src/agents/arbitrage_detector.py) ----
    confidence_threshold,   \* self.confidence_threshold, hundredths
    min_profit_margin,      \* self.min_profit_margin, hundredths
    det_impacts,            \* argument impacts of the last/next call
    det_market_data,        \* argument market_data_map: market -> yes_price or NoData
    det_result,             \* list returned by the last detect_opportunities call
    det_calls,              \* number of detect_opportunities calls made
    det_now,                \* wall clock of the detector, in whole seconds
    det_previous,           \* list returned by the call before the last one
    \* ---- PolymarketGammaClient rate limiting (src/tools/polymarket_client.py) ----
    lim_now,                \* event loop clock, in ticks
    semaphore,              \* free permits of self.semaphore
    request_times,          \* self.request_times
    lim_pc,                 \* per caller: position inside _request
    lim_local_now,          \* per caller: the local variable now
    lim_wake,               \* per caller: loop time at which its sleep ends
    issued,                 \* loop times at which client.request was called
    \* ---- ThreadSafeAlertStore / ThreadSafeMetricsStore (src/utils/shared_state.py) ----
    st_items,               \* per store: self._alerts / self._metrics
    st_max_size,            \* per store: self._max_size
    st_history,             \* per store: every entry added since the last clear
    st_next_id,             \* id of the next entry handed to add
    st_recent,              \* the last get_recent call and the value it returned
    \* ---- ServiceState and the heartbeat file (src/utils/shared_state.py) ----
    hb_now,                 \* wall clock shared by the processes, in ticks
    hb_file,                \* content of WORKER_STATUS_FILE
    worker_running,         \* per process: self._worker_running
    web_server_running,     \* per process: self._web_server_running
    current_cycle,          \* per process: self._current_cycle
    last_cycle_time,        \* per process: self._last_cycle_time
    hb_query,               \* the last get_status / is_healthy call and its answer
    \* ---- ArbitrageDetectionGraph (src/workflows/mvp_workflow.py) ----
    cyc_pc,                 \* position of the run_continuous / run_cycle task
    state,                  \* the ArbitrageState of the cycle in progress
    news_cache,             \* self.news_cache: URLs seen in this process
    cycle_count,            \* local cycle_count of run_continuous
    max_cycles,             \* argument max_cycles (NoData for None)
    stop_reason,            \* why run_continuous ended
    cycle_result,           \* what the last run_cycle call returned
    cyc_raised,             \* stages in which an exception was raised this cycle
    published,              \* ids of the alerts create_alert has published
    cyc_trace,              \* nodes of the graph run so far in this cycle
    cyc_partial,            \* alerts built by a generate_alerts that was interrupted
    cyc_searched,           \* search_news: len(articles) and filtered_count of this cycle
    \* ---- PolymarketGammaClient operations and retry (src/tools/polymarket_client.py) ----
    rt_pc,                  \* position of the caller of a client operation
    rt_op,                  \* the operation being called
    rt_log,                 \* outcome of each HTTP attempt of the current call
    rt_result,              \* what the call gave its caller
    rt_calls,               \* number of calls completed
    \* ---- ReasoningClient (src/tools/reasoning_client.py) ----
    ra_input,               \* what the environment gives the pending analyze_impact call
    ra_result,              \* what the last analyze_impact call gave its caller
    ra_calls,               \* number of analyze_impact calls made
    \* ---- MetricsCollector (src/utils/metrics.py) ----
    mc_current,             \* self.current_cycle
    mc_history,             \* self.cycle_history
    mc_persisted,           \* records saved by the MetricsRepository
    mc_store,               \* records held by the shared metrics store
    mc_next_id,             \* number of the next cycle to start
    \* ---- one store used by several threads (src/utils/shared_state.py) ----
    lk_owner,               \* the thread holding self._lock, or NoThread
    lk_pc,                  \* per thread: position inside its store call
    lk_local,               \* per thread: the call it makes and its local values
    lk_items,               \* self._alerts
    lk_abstract,            \* the list as the completed mutations leave it
    lk_read,                \* the last read call and the value it returned
    lk_next_id,             \* id of the next entry handed to add
    lk_max_size,            \* self._max_size
    \* ---- repair_json (src/tools/reasoning_client.py) ----
    rj_x,                   \* the object handed to json.dumps, or NoValue
    rj_text,                \* the text handed to repair_json
    rj_result,              \* what the last repair_json call returned or raised
    \* ---- TelegramNotifier (src/notifications/telegram_notifier.py) ----
    bc_enabled,             \* self.enabled
    bc_min_severity,        \* self.min_severity
    bc_subscribers,         \* chat ids of the active subscribers of the last broadcast
    bc_posts,               \* chat each sendMessage request of the last broadcast went to
    bc_result,              \* what the last broadcast_alert call returned
    \* ---- ReasoningClient._perform_reasoning, one pair at a time ----
    pr_pc,                  \* where the assessor is for the current pair
    pr_now,                 \* the clock, in seconds
    pr_api_key,             \* whether settings.gemini_api_key is set
    pr_initialized,         \* self._initialized
    pr_request_times,       \* self._request_times
    pr_wake,                \* when the sleep of _acquire_rate_limit ends, or NoWake
    pr_issued,              \* the time of every model call issued so far
    pr_event,               \* what the model call and the parser did for the current pair
    pr_calls,               \* number of pairs handed to the assessor so far
    \* ---- one cycle on long lists of articles and markets ----
    pl_pc,                  \* the stage about to run
    pl_state,               \* the ArbitrageState of the cycle
    pl_pairs                \* number of pairs handed to the assessor

detVars == <<confidence_threshold, min_profit_margin, det_impacts,
             det_market_data, det_result, det_calls, det_now, det_previous>>

limVars == <<lim_now, semaphore, request_times, lim_pc, lim_local_now,
             lim_wake, issued>>

storeVars == <<st_items, st_max_size, st_history, st_next_id, st_recent>>

hbVars == <<hb_now, hb_file, worker_running, web_server_running, current_cycle,
            last_cycle_time, hb_query>>

cycVars == <<cyc_pc, state, news_cache, cycle_count, max_cycles, stop_reason,
             cycle_result, cyc_raised, published, cyc_trace, cyc_partial,
             cyc_searched>>

retryVars == <<rt_pc, rt_op, rt_log, rt_result, rt_calls>>

reasonVars == <<ra_input, ra_result, ra_calls>>

metVars == <<mc_current, mc_history, mc_persisted, mc_store, mc_next_id>>

lockVars == <<lk_owner, lk_pc, lk_local, lk_items, lk_abstract, lk_read,
              lk_next_id, lk_max_size>>

repairVars == <<rj_x, rj_text, rj_result>>

bcVars == <<bc_enabled, bc_min_severity, bc_subscribers, bc_posts, bc_result>>

prVars == <<pr_pc, pr_now, pr_api_key, pr_initialized, pr_request_times,
            pr_wake, pr_issued, pr_event, pr_calls>>

plVars == <<pl_pc, pl_state, pl_pairs>>

vars == <<detVars, limVars, storeVars, hbVars, cycVars, retryVars, reasonVars,
          metVars, lockVars, repairVars, bcVars, prVars, plVars>>

\* What the operations of one component leave alone.
notDetVars == <<limVars, storeVars, hbVars, cycVars, retryVars, reasonVars, metVars,
    lockVars, repairVars, bcVars, prVars, plVars>>
notLimVars == <<detVars, storeVars, hbVars, cycVars, retryVars, reasonVars, metVars,
    lockVars, repairVars, bcVars, prVars, plVars>>
notStoreVars == <<detVars, limVars, hbVars, cycVars, retryVars, reasonVars, metVars,
    lockVars, repairVars, bcVars, prVars, plVars>>
notHbVars == <<detVars, limVars, storeVars, cycVars, retryVars, reasonVars, metVars,
    lockVars, repairVars, bcVars, prVars, plVars>>
notCycVars == <<detVars, limVars, storeVars, hbVars, retryVars, reasonVars, metVars,
    lockVars, repairVars, bcVars, prVars, plVars>>
notRetryVars == <<detVars, limVars, storeVars, hbVars, cycVars, reasonVars, metVars,
    lockVars, repairVars, bcVars, prVars, plVars>>
notReasonVars == <<detVars, limVars, storeVars, hbVars, cycVars, retryVars, metVars,
    lockVars, repairVars, bcVars, prVars, plVars>>
notMetVars == <<detVars, limVars, storeVars, hbVars, cycVars, retryVars, reasonVars,
    lockVars, repairVars, bcVars, prVars, plVars>>
notLockVars == <<detVars, limVars, storeVars, hbVars, cycVars, retryVars,
    reasonVars, metVars, repairVars, bcVars, prVars, plVars>>
notRepairVars == <<detVars, limVars, storeVars, hbVars, cycVars, retryVars,
    reasonVars, metVars, lockVars, bcVars, prVars, plVars>>
notBcVars == <<detVars, limVars, storeVars, hbVars, cycVars, retryVars,
    reasonVars, metVars, lockVars, repairVars, prVars, plVars>>
notPrVars == <<detVars, limVars, storeVars, hbVars, cycVars, retryVars,
    reasonVars, metVars, lockVars, repairVars, bcVars, plVars>>
notPlVars == <<detVars, limVars, storeVars, hbVars, cycVars, retryVars,
    reasonVars, metVars, lockVars, repairVars, bcVars, prVars>>

----------------------------------------------------------------------------
(* Generic helpers *)

Abs(x) == IF x < 0 THEN -x ELSE x

Min(a, b) == IF a < b THEN a ELSE b

Max(a, b) == IF a > b THEN a ELSE b

Range(s) == {s[i] : i \in 1..Len(s)}

\* Python s[-k:] for k >= 0.  Note that s[-0:] is s[0:], the whole list.
LastSlice(s, k) ==
    IF k = 0 \/ k >= Len(s) THEN s
    ELSE SubSeq(s, Len(s) - k + 1, Len(s))

Reverse(s) == [i \in 1..Len(s) |-> s[Len(s) + 1 - i]]

----------------------------------------------------------------------------
(* ArbitrageDetector *)

NoData == -1

MarketIds == {"m1", "m2"}

\* Bound on the number of assessments handed to one detect_opportunities call.
MaxImpacts == 2

\* Bound on the number of detect_opportunities / update_thresholds calls.
MaxDetCalls == 2

RelevanceValues == {10, 30, 80}
ConfidenceValues == {50, 75, 80}
ExpectedPriceValues == {58, 70}
ThresholdValues == {40, 70}
MarginValues == {5, 12}

ImpactInputs ==
    [market_id : MarketIds, relevance : RelevanceValues,
     confidence : ConfidenceValues, expected_price : ExpectedPriceValues]

\* MarketImpact.is_significant: relevance > 0.1
is_significant(impact) == impact.relevance > 10

\* Opportunity.is_profitable(min_profit_margin): potential_profit >= margin.
\* potential_profit is in ten-thousandths, the margin in hundredths.
is_profitable_any(opp, margin) == opp.potential_profit >= 0

is_profitable_half(opp, margin) == 2 * opp.potential_profit >= margin * 100

is_profitable(opp, margin) == opp.potential_profit >= margin * 100

\* ArbitrageDetector._calculate_opportunity
calculate_opportunity_no_confidence_test(impact, yes_price, margin) ==
    LET discrepancy == Abs(impact.expected_price - yes_price)
        potential_profit == discrepancy * impact.confidence
        action == IF potential_profit >= margin * 100
                    THEN "investigate"
                  ELSE IF 2 * potential_profit >= margin * 100
                    THEN "monitor"
                  ELSE "watch"
    IN [impact_id |-> impact.id, market_id |-> impact.market_id,
        current_price |-> yes_price, expected_price |-> impact.expected_price,
        discrepancy |-> discrepancy, potential_profit |-> potential_profit,
        confidence |-> impact.confidence, action |-> action]

calculate_opportunity_swapped(impact, yes_price, margin) ==
    LET discrepancy == Abs(impact.expected_price - yes_price)
        potential_profit == discrepancy * impact.confidence
        action == IF potential_profit >= margin * 100 /\ impact.confidence >= 80
                    THEN "monitor"
                  ELSE IF 2 * potential_profit >= margin * 100
                    THEN "investigate"
                  ELSE "watch"
    IN [impact_id |-> impact.id, market_id |-> impact.market_id,
        current_price |-> yes_price, expected_price |-> impact.expected_price,
        discrepancy |-> discrepancy, potential_profit |-> potential_profit,
        confidence |-> impact.confidence, action |-> action]

calculate_opportunity(impact, yes_price, margin) ==
    LET discrepancy == Abs(impact.expected_price - yes_price)
        potential_profit == discrepancy * impact.confidence
        action == IF potential_profit >= margin * 100 /\ impact.confidence >= 80
                    THEN "investigate"
                  ELSE IF 2 * potential_profit >= margin * 100
                    THEN "monitor"
                  ELSE "watch"
    IN [impact_id |-> impact.id, market_id |-> impact.market_id,
        current_price |-> yes_price, expected_price |-> impact.expected_price,
        discrepancy |-> discrepancy, potential_profit |-> potential_profit,
        confidence |-> impact.confidence, action |-> action]

\* The body of the for loop of detect_opportunities for one impact: the
\* opportunities it appends (none or one).
detect_one_no_relevance(impact, data, t, m) ==
    IF impact.confidence < t THEN <<>>
    ELSE IF data[impact.market_id] = NoData THEN <<>>
    ELSE LET opp == calculate_opportunity(impact, data[impact.market_id], m)
         IN IF is_profitable(opp, m) THEN <<opp>> ELSE <<>>

detect_one_no_confidence(impact, data, t, m) ==
    IF ~is_significant(impact) THEN <<>>
    ELSE IF data[impact.market_id] = NoData THEN <<>>
    ELSE LET opp == calculate_opportunity(impact, data[impact.market_id], m)
         IN IF is_profitable(opp, m) THEN <<opp>> ELSE <<>>

detect_one(impact, data, t, m) ==
    IF ~is_significant(impact) THEN <<>>
    ELSE IF impact.confidence < t THEN <<>>
    ELSE IF data[impact.market_id] = NoData THEN <<>>
    ELSE LET opp == calculate_opportunity(impact, data[impact.market_id], m)
         IN IF is_profitable(opp, m) THEN <<opp>> ELSE <<>>

\* ArbitrageDetector.detect_opportunities: the loop over impacts in order.
RECURSIVE detect_opportunities(_, _, _, _)
detect_opportunities(impacts, data, t, m) ==
    IF impacts = <<>> THEN <<>>
    ELSE detect_one(Head(impacts), data, t, m)
         \o detect_opportunities(Tail(impacts), data, t, m)

\* _generate_opportunity_id: f"opp-{int(timestamp)}-{impact.market_id[:8]}";
\* the market ids of the model are shorter than 8 characters.
generate_opportunity_id(now, market_id) == <<"opp", now, market_id>>

\* The Opportunity objects of one call, built within the clock second now.
with_opportunity_ids(opps, now) ==
    [k \in 1..Len(opps) |->
        [id |-> generate_opportunity_id(now, opps[k].market_id),
         impact_id |-> opps[k].impact_id, market_id |-> opps[k].market_id,
         current_price |-> opps[k].current_price,
         expected_price |-> opps[k].expected_price,
         discrepancy |-> opps[k].discrepancy,
         potential_profit |-> opps[k].potential_profit,
         confidence |-> opps[k].confidence, action |-> opps[k].action]]

NoPrevious == [made |-> FALSE]

\* Bound on the detector's clock.
MaxDetTime == 1

\* Assessments get their id from their position in the input list.
WithIds(s) ==
    [i \in 1..Len(s) |->
        [id |-> i, market_id |-> s[i].market_id, relevance |-> s[i].relevance,
         confidence |-> s[i].confidence, expected_price |-> s[i].expected_price]]

ImpactLists == UNION {[1..n -> ImpactInputs] : n \in 0..MaxImpacts}

MarketDataMaps == {d \in [MarketIds -> {NoData, 50, 55}] : d["m1"] = 55}

DetInit ==
    /\ confidence_threshold \in ThresholdValues
    /\ min_profit_margin \in MarginValues
    /\ det_impacts \in {WithIds(s) : s \in ImpactLists}
    /\ det_market_data \in MarketDataMaps
    /\ det_result = <<>>
    /\ det_calls = 0
    /\ det_now = 0
    /\ det_previous = NoPrevious

DetIdle ==
    /\ confidence_threshold = 70
    /\ min_profit_margin = 5
    /\ det_impacts = <<>>
    /\ det_market_data = [mk \in MarketIds |-> NoData]
    /\ det_result = <<>>
    /\ det_calls = 0
    /\ det_now = 0
    /\ det_previous = NoPrevious

\* One call of detect_opportunities on the pending arguments, made within
\* the clock second det_now; each Opportunity gets its id when it is built.
DetectOpportunities ==
    /\ det_calls < MaxDetCalls
    /\ det_result' = with_opportunity_ids(
                        detect_opportunities(det_impacts, det_market_data,
                                             confidence_threshold, min_profit_margin),
                        det_now)
    /\ det_previous' = IF det_calls > 0
                         THEN [made |-> TRUE, result |-> det_result]
                         ELSE det_previous
    /\ det_calls' = det_calls + 1
    /\ UNCHANGED <<confidence_threshold, min_profit_margin, det_impacts,
                   det_market_data, det_now>>
    /\ UNCHANGED notDetVars

\* ArbitrageDetector.update_thresholds; the previous result is no longer the
\* result for the current thresholds, so it is dropped from the model state.
UpdateThresholds ==
    /\ \E t \in ThresholdValues \cup {NoData}, m \in MarginValues \cup {NoData} :
        /\ confidence_threshold' = IF t = NoData THEN confidence_threshold ELSE t
        /\ min_profit_margin' = IF m = NoData THEN min_profit_margin ELSE m
    /\ det_result' = <<>>
    /\ det_calls' = 0
    /\ det_previous' = NoPrevious
    /\ UNCHANGED <<det_impacts, det_market_data, det_now>>
    /\ UNCHANGED notDetVars

\* A second of wall clock time passes.
DetTick ==
    /\ det_now < MaxDetTime
    /\ det_now' = det_now + 1
    /\ UNCHANGED <<confidence_threshold, min_profit_margin, det_impacts,
                   det_market_data, det_result, det_calls, det_previous>>
    /\ UNCHANGED notDetVars

NextDetector == DetectOpportunities \/ UpdateThresholds \/ DetTick

----------------------------------------------------------------------------
(* PolymarketGammaClient._request: semaphore and sliding window *)

\* Ticks of the event loop clock per second (the 1.0 of the window test).
TicksPerSecond == 2

\* requests_per_second of the client under test.
RateLimit == 2

\* Bounds of the limiter model: callers sharing one client, requests issued
\* in a run, and the last clock tick.
NumCallers == 3
MaxIssued == 5
MaxTime == 3

Callers == 1..NumCallers

\* self.request_times = [t for t in self.request_times if now - t < 1.0]
PruneTimes(times, now) == SelectSeq(times, LAMBDA t : now - t < TicksPerSecond)

LimInit ==
    /\ lim_now = 0
    /\ semaphore = RateLimit
    /\ request_times = <<>>
    /\ lim_pc = [c \in Callers |-> "idle"]
    /\ lim_local_now = [c \in Callers |-> 0]
    /\ lim_wake = [c \in Callers |-> 0]
    /\ issued = <<>>

LimIdle == LimInit

\* A caller enters _request: it takes a permit, reads the clock, prunes the
\* window and either goes to sleep (window full) or records its timestamp and
\* sends the request, all without yielding to the event loop.
LimEnter(c) ==
    /\ lim_pc[c] = "idle"
    /\ semaphore > 0
    /\ Len(issued) + Cardinality({d \in Callers : lim_pc[d] = "sleeping"}) < MaxIssued
    /\ semaphore' = semaphore - 1
    /\ lim_local_now' = [lim_local_now EXCEPT ![c] = lim_now]
    /\ LET pruned == PruneTimes(request_times, lim_now)
       IN IF Len(pruned) >= RateLimit /\ TicksPerSecond - (lim_now - pruned[1]) > 0
            THEN /\ request_times' = pruned
                 /\ lim_wake' = [lim_wake EXCEPT
                        ![c] = lim_now + TicksPerSecond - (lim_now - pruned[1])]
                 /\ lim_pc' = [lim_pc EXCEPT ![c] = "sleeping"]
                 /\ UNCHANGED issued
            ELSE /\ request_times' =
                        Append(IF Len(pruned) >= RateLimit THEN <<>> ELSE pruned,
                               lim_now)
                 /\ lim_pc' = [lim_pc EXCEPT ![c] = "inflight"]
                 /\ issued' = Append(issued, lim_now)
                 /\ UNCHANGED lim_wake
    /\ UNCHANGED lim_now
    /\ UNCHANGED notLimVars

\* The sleep of a caller ends: it clears the window, records the clock value
\* it read before sleeping and sends the request.
LimWake(c) ==
    /\ lim_pc[c] = "sleeping"
    /\ lim_now >= lim_wake[c]
    /\ request_times' = <<lim_local_now[c]>>
    /\ issued' = Append(issued, lim_now)
    /\ lim_pc' = [lim_pc EXCEPT ![c] = "inflight"]
    /\ UNCHANGED <<lim_now, semaphore, lim_local_now, lim_wake>>
    /\ UNCHANGED notLimVars

\* The response (or an error) arrives; leaving the async with block releases
\* the permit.  The caller may then call _request again.
LimComplete(c) ==
    /\ lim_pc[c] = "inflight"
    /\ semaphore' = semaphore + 1
    /\ lim_pc' = [lim_pc EXCEPT ![c] = "idle"]
    /\ UNCHANGED <<lim_now, request_times, lim_local_now, lim_wake, issued>>
    /\ UNCHANGED notLimVars

\* The clock advances; a sleep that is due ends before the clock moves on.
LimTick ==
    /\ lim_now < MaxTime
    /\ \A c \in Callers : lim_pc[c] = "sleeping" => lim_wake[c] > lim_now
    /\ lim_now' = lim_now + 1
    /\ UNCHANGED <<semaphore, request_times, lim_pc, lim_local_now, lim_wake,
                   issued>>
    /\ UNCHANGED notLimVars

NextLimiter ==
    \/ \E c \in Callers : LimEnter(c)
    \/ \E c \in Callers : LimWake(c)
    \/ \E c \in Callers : LimComplete(c)
    \/ LimTick

----------------------------------------------------------------------------
(* ThreadSafeAlertStore and ThreadSafeMetricsStore *)

Stores == {"alerts", "metrics"}

\* Bounds of the store model: the largest configured max_size, the number of
\* add calls per run and the largest limit passed to get_recent.
MaxCapacity == 2
MaxAdds == 4
MaxLimit == 3

\* add(): append, then self._alerts = self._alerts[-self._max_size:] when the
\* list has grown beyond max_size.
StoreAppend_NoEvict(items, max_size, entry) == Append(items, entry)

StoreAppend_DropNewest(items, max_size, entry) ==
    LET appended == Append(items, entry)
    IN IF Len(appended) > max_size
         THEN SubSeq(appended, 1, max_size)
         ELSE appended

StoreAppend(items, max_size, entry) ==
    LET appended == Append(items, entry)
    IN IF Len(appended) > max_size
         THEN LastSlice(appended, max_size)
         ELSE appended

\* get_recent(limit): list(reversed(self._alerts[-limit:]))
get_recent(items, limit) == Reverse(LastSlice(items, limit))

NoRecent == [store |-> "none"]

StoreInit ==
    /\ st_items = [s \in Stores |-> <<>>]
    /\ st_max_size \in [Stores -> 0..MaxCapacity]
    /\ st_history = [s \in Stores |-> <<>>]
    /\ st_next_id = 1
    /\ st_recent = NoRecent

StoreIdle ==
    /\ st_items = [s \in Stores |-> <<>>]
    /\ st_max_size = [s \in Stores |-> 1]
    /\ st_history = [s \in Stores |-> <<>>]
    /\ st_next_id = 1
    /\ st_recent = NoRecent

\* ThreadSafeAlertStore.add / ThreadSafeMetricsStore.add, under the store lock.
StoreAdd(s) ==
    /\ st_next_id <= MaxAdds
    /\ st_items' = [st_items EXCEPT ![s] = StoreAppend(@, st_max_size[s], st_next_id)]
    /\ st_history' = [st_history EXCEPT ![s] = Append(@, st_next_id)]
    /\ st_next_id' = st_next_id + 1
    /\ UNCHANGED <<st_max_size, st_recent>>
    /\ UNCHANGED notStoreVars

\* get_recent(limit), under the store lock; the call is recorded with the
\* list it read and the value it returned.
StoreGetRecent(s) ==
    /\ \E limit \in 0..MaxLimit :
            st_recent' = [store |-> s, limit |-> limit, items |-> st_items[s],
                          result |-> get_recent(st_items[s], limit)]
    /\ UNCHANGED <<st_items, st_max_size, st_history, st_next_id>>
    /\ UNCHANGED notStoreVars

\* clear(), under the store lock.
StoreClear(s) ==
    /\ st_items' = [st_items EXCEPT ![s] = <<>>]
    /\ st_history' = [st_history EXCEPT ![s] = <<>>]
    /\ UNCHANGED <<st_max_size, st_next_id, st_recent>>
    /\ UNCHANGED notStoreVars

NextStore ==
    \/ \E s \in Stores : StoreAdd(s)
    \/ \E s \in Stores : StoreGetRecent(s)
    \/ \E s \in Stores : StoreClear(s)

----------------------------------------------------------------------------
(* ServiceState and the heartbeat file *)

\* Processes holding a ServiceState singleton.  The "worker" process runs the
\* cycle loop (and may serve status queries from another thread); the "api"
\* process only serves queries.  Only the worker process changes the worker
\* flag and the cycle counter, so the file has a single writer.
Procs == {"worker", "api"}

\* A clock tick is 15 seconds: the 30 second heartbeat window is 2 ticks.
StaleTicks == 2

\* Bounds of the heartbeat model: last clock tick and largest cycle number.
MaxHbTime == 3
MaxCycle == 1

NoFile == [kind |-> "absent"]
TornFile == [kind |-> "torn"]

\* ServiceState._write_worker_status_file: the content json.dump writes
HeartbeatOf(running, cycle, cycle_time) ==
    [kind |-> "heartbeat",
     worker_running |-> running,
     current_cycle |-> cycle,
     last_heartbeat |-> hb_now,
     last_cycle_time |-> cycle_time]

\* ServiceState._write_worker_status_file: the file after the call.  The write
\* may succeed, fail before the file is opened (logged, file untouched), or
\* fail after open(..., 'w') truncated it (logged, unparsable content left).
FilesAfterWrite(running, cycle, cycle_time) ==
    {HeartbeatOf(running, cycle, cycle_time), hb_file, TornFile}

\* ServiceState._read_worker_status_file: the data, or NoFile for None
read_worker_status_file_le(file, now) ==
    IF file.kind = "heartbeat" /\ now - file.last_heartbeat <= StaleTicks
        THEN file ELSE NoFile

read_worker_status_file(file, now) ==
    IF file.kind = "heartbeat" /\ now - file.last_heartbeat < StaleTicks
        THEN file ELSE NoFile

\* The worker_running value get_status and is_healthy work with
reported_worker_running_file_only(p, file, now) ==
    LET data == read_worker_status_file(file, now)
    IN IF data.kind = "heartbeat" THEN data.worker_running ELSE FALSE

reported_worker_running(p, file, now) ==
    LET data == read_worker_status_file(file, now)
    IN IF data.kind = "heartbeat" THEN data.worker_running ELSE worker_running[p]

\* The current_cycle value get_status returns
reported_current_cycle(p, file, now) ==
    LET data == read_worker_status_file(file, now)
    IN IF data.kind = "heartbeat" THEN data.current_cycle ELSE current_cycle[p]

NoQuery == [op |-> "none"]

HbInit ==
    /\ hb_now = 0
    /\ hb_file = NoFile
    /\ worker_running = [p \in Procs |-> FALSE]
    /\ web_server_running = [p \in Procs |-> FALSE]
    /\ current_cycle = [p \in Procs |-> 0]
    /\ last_cycle_time = [p \in Procs |-> NoData]
    /\ hb_query = NoQuery

HbIdle == HbInit

\* ServiceState.set_worker_running(running) in the worker process
SetWorkerRunning(running) ==
    /\ worker_running' = [worker_running EXCEPT !["worker"] = running]
    /\ IF running
         THEN hb_file' \in FilesAfterWrite(running, current_cycle["worker"],
                                           last_cycle_time["worker"])
         \* unlink(missing_ok=True); a failure is swallowed and leaves the file
         ELSE hb_file' \in {NoFile, hb_file}
    /\ UNCHANGED <<hb_now, web_server_running, current_cycle, last_cycle_time,
                   hb_query>>
    /\ UNCHANGED notHbVars

\* ServiceState.set_web_server_running(running) in process p
SetWebServerRunning(p, running) ==
    /\ web_server_running' = [web_server_running EXCEPT ![p] = running]
    /\ UNCHANGED <<hb_now, hb_file, worker_running, current_cycle,
                   last_cycle_time, hb_query>>
    /\ UNCHANGED notHbVars

\* ServiceState.increment_cycle in the worker process
IncrementCycle ==
    /\ current_cycle["worker"] < MaxCycle
    /\ current_cycle' = [current_cycle EXCEPT !["worker"] = @ + 1]
    /\ last_cycle_time' = [last_cycle_time EXCEPT !["worker"] = hb_now]
    /\ IF worker_running["worker"]
         THEN hb_file' \in FilesAfterWrite(worker_running["worker"],
                                           current_cycle["worker"] + 1, hb_now)
         ELSE hb_file' = hb_file
    /\ UNCHANGED <<hb_now, worker_running, web_server_running, hb_query>>
    /\ UNCHANGED notHbVars

\* ServiceState.get_status in process p; the answer is recorded together with
\* what the caller could see when it asked (the file, the clock, its own
\* fields) and with the flag the worker process held at that moment.
GetStatus(p) ==
    /\ hb_query' =
        [op |-> "get_status", proc |-> p, file |-> hb_file, now |-> hb_now,
         own_flag |-> worker_running[p], own_cycle |-> current_cycle[p],
         own_web |-> web_server_running[p],
         worker_flag |-> worker_running["worker"],
         worker_running |-> reported_worker_running(p, hb_file, hb_now),
         current_cycle |-> reported_current_cycle(p, hb_file, hb_now),
         healthy |-> FALSE]
    /\ UNCHANGED <<hb_now, hb_file, worker_running, web_server_running,
                   current_cycle, last_cycle_time>>
    /\ UNCHANGED notHbVars

\* ServiceState.is_healthy in process p
IsHealthy(p) ==
    /\ hb_query' =
        [op |-> "is_healthy", proc |-> p, file |-> hb_file, now |-> hb_now,
         own_flag |-> worker_running[p], own_cycle |-> current_cycle[p],
         own_web |-> web_server_running[p],
         worker_flag |-> worker_running["worker"],
         worker_running |-> reported_worker_running(p, hb_file, hb_now),
         current_cycle |-> 0,
         healthy |-> reported_worker_running(p, hb_file, hb_now)
                     /\ web_server_running[p]]
    /\ UNCHANGED <<hb_now, hb_file, worker_running, web_server_running,
                   current_cycle, last_cycle_time>>
    /\ UNCHANGED notHbVars

\* 15 seconds pass.
HbTick ==
    /\ hb_now < MaxHbTime
    /\ hb_now' = hb_now + 1
    /\ UNCHANGED <<hb_file, worker_running, web_server_running, current_cycle,
                   last_cycle_time, hb_query>>
    /\ UNCHANGED notHbVars

NextHeartbeat ==
    \/ \E running \in BOOLEAN : SetWorkerRunning(running)
    \/ \E p \in Procs, running \in BOOLEAN : SetWebServerRunning(p, running)
    \/ IncrementCycle
    \/ \E p \in Procs : GetStatus(p)
    \/ \E p \in Procs : IsHealthy(p)
    \/ HbTick

----------------------------------------------------------------------------
(* ArbitrageDetectionGraph: run_cycle and run_continuous *)

Urls == {"u1", "u2"}

\* Bounds of the orchestrator model: articles returned by one news search and
\* cycles started in one run.
MaxNews == 2
MaxLoopCycles == 2

\* The slices of analyze_impacts and fetch_markets.
NewsLimit == 5
MarketLimit == 10
PriceLimit == 50

\* Python s[:k]
Prefix(s, k) == SubSeq(s, 1, Min(k, Len(s)))

\* An article as search_news sees it: its URL and whether it has a
\* published_date no older than news_max_age_days.
Articles == [url : Urls, dated : BOOLEAN]

SearchResults == UNION {[1..n -> Articles] : n \in 0..MaxNews}

\* What get_markets returns, and what get_market_data gives for a market:
\* an exception, a zero YES price or a positive one.
MarketLists == {<<>>, <<"m1">>, <<"m1", "m2">>}
PriceRaise == -2
PriceOutcomes == {PriceRaise, 0, 50}

\* What analyze_impact gives for a pair: an exception, the neutral assessment,
\* or a significant assessment of low or of high confidence.
AssessRaise == [relevance |-> -1, confidence |-> -1, expected_price |-> -1]
Assessments ==
    {[relevance |-> 0, confidence |-> 0, expected_price |-> 50],
     [relevance |-> 80, confidence |-> 40, expected_price |-> 70],
     [relevance |-> 80, confidence |-> 75, expected_price |-> 70]}

\* What _fallback_reasoning gives for an article sharing words with the
\* question: confidence 0.4, expected price 0.6 for the direction up.
FallbackAssessment == [relevance |-> 80, confidence |-> 40, expected_price |-> 60]

assess_outcomes_any(api_key) == Assessments \cup {AssessRaise}

\* What analyze_impact can give for a pair.  Without an API key
\* _perform_reasoning returns the keyword fallback and never the model's
\* answer; the neutral assessment and an exception remain possible.
assess_outcomes(api_key) ==
    IF api_key THEN Assessments \cup {AssessRaise}
    ELSE {FallbackAssessment, [relevance |-> 0, confidence |-> 0, expected_price |-> 50],
          AssessRaise}

\* run_cycle: initial_state
InitialState ==
    [news_articles |-> <<>>, markets |-> <<>>,
     market_data |-> [mk \in MarketIds |-> NoData],
     market_impacts |-> <<>>, opportunities |-> <<>>, alerts |-> <<>>,
     cycle_end_time |-> FALSE, errors |-> <<>>]

NoResult == [returned |-> FALSE]

\* search_news: the articles passing the secondary validation
validated_articles(articles) == SelectSeq(articles, LAMBDA a : a.dated)

\* search_news: how many articles the search returned and how many of them
\* the secondary validation filtered out
search_counts(articles) ==
    [returned |-> Len(articles),
     filtered |-> Len(articles) - Len(validated_articles(articles))]

NoSearch == [returned |-> 0, filtered |-> 0]

\* search_news: deduplication against self.news_cache, which it updates
Deduplicate_NoCacheTest(articles, cache) ==
    [new |-> [i \in 1..Len(articles) |-> articles[i].url],
     cache |-> cache \cup {articles[i].url : i \in 1..Len(articles)}]

RECURSIVE Deduplicate(_, _)
Deduplicate(articles, cache) ==
    IF articles = <<>> THEN [new |-> <<>>, cache |-> cache]
    ELSE LET url == Head(articles).url
         IN IF url \notin cache
              THEN LET rest == Deduplicate(Tail(articles), cache \cup {url})
                   IN [new |-> <<url>> \o rest.new, cache |-> rest.cache]
              ELSE Deduplicate(Tail(articles), cache)

\* search_news: the except branch
search_news_failed_silent(st) == [st EXCEPT !.news_articles = <<>>]

search_news_failed(st) ==
    [st EXCEPT !.errors = Append(@, "News search failed"),
               !.news_articles = <<>>]

\* fetch_markets: market_data_map built from the per-market outcomes; a market
\* whose price fetch raised or whose YES price is 0 gets no entry
market_data_map(markets, prices) ==
    [mk \in MarketIds |->
        IF /\ mk \in Range(Prefix(markets, PriceLimit))
           /\ prices[mk] # PriceRaise
           /\ prices[mk] > 0
          THEN prices[mk] ELSE NoData]

\* fetch_markets: the except branch
fetch_markets_failed(st) ==
    [st EXCEPT !.errors = Append(@, "Market fetch failed"),
               !.markets = <<>>,
               !.market_data = [mk \in MarketIds |-> NoData]]

AssessedPairs_unsliced(st) ==
    [k \in 1..(Len(st.news_articles) * Len(st.markets)) |->
        <<st.news_articles[((k - 1) \div Len(st.markets)) + 1],
          st.markets[((k - 1) % Len(st.markets)) + 1]>>]

\* analyze_impacts: the (news, market) pairs in loop order
AssessedPairs(st) ==
    LET news == Prefix(st.news_articles, Min(Len(st.news_articles), NewsLimit))
        mkts == Prefix(st.markets, Min(Len(st.markets), MarketLimit))
    IN [k \in 1..(Len(news) * Len(mkts)) |->
            <<news[((k - 1) \div Len(mkts)) + 1], mkts[((k - 1) % Len(mkts)) + 1]>>]

\* analyze_impacts: what the loop body appends to impacts for one pair
impact_kept_all(pair, outcome) ==
    IF outcome = AssessRaise THEN <<>>
    ELSE <<[id |-> pair, news_url |-> pair[1], market_id |-> pair[2],
            relevance |-> outcome.relevance, confidence |-> outcome.confidence,
            expected_price |-> outcome.expected_price]>>

impact_kept(pair, outcome) ==
    IF outcome = AssessRaise THEN <<>>
    ELSE IF ~is_significant(outcome) THEN <<>>
    ELSE <<[id |-> pair, news_url |-> pair[1], market_id |-> pair[2],
            relevance |-> outcome.relevance, confidence |-> outcome.confidence,
            expected_price |-> outcome.expected_price]>>

RECURSIVE analyze_pairs(_, _, _)
analyze_pairs(pairs, outcomes, k) ==
    IF k > Len(pairs) THEN <<>>
    ELSE impact_kept(pairs[k], outcomes[k]) \o analyze_pairs(pairs, outcomes, k + 1)

\* detect_opportunities node: the except branch
detect_opportunities_failed(st) ==
    [st EXCEPT !.errors = Append(@, "Opportunity detection failed"),
               !.opportunities = <<>>]

\* generate_alerts: the loop body for one opportunity; created says whether
\* create_alert returned (TRUE) or raised (FALSE)
alert_for(st, opp, created) ==
    LET impacts == SelectSeq(st.market_impacts, LAMBDA i : i.id = opp.impact_id)
    IN IF impacts = <<>> THEN <<>>
       ELSE IF impacts[1].news_url \notin Range(st.news_articles) THEN <<>>
       ELSE IF opp.market_id \notin Range(st.markets) THEN <<>>
       ELSE IF ~created THEN <<>>
       ELSE <<[opportunity_id |-> opp.impact_id, news_url |-> impacts[1].news_url,
               market_id |-> opp.market_id,
               recommended_action |-> opp.action]>>

RECURSIVE build_alerts(_, _, _)
build_alerts(st, created, k) ==
    IF k > Len(st.opportunities) THEN <<>>
    ELSE alert_for(st, st.opportunities[k], created[k])
         \o build_alerts(st, created, k + 1)

\* generate_alerts: the state after the loop
generate_alerts_no_end_time(st, alerts) == [st EXCEPT !.alerts = alerts]

generate_alerts_done(st, alerts) ==
    [st EXCEPT !.alerts = alerts, !.cycle_end_time = TRUE]

\* run_continuous: where the loop goes after run_cycle returned or raised,
\* as <<position, stop reason>>
after_cycle_one_more(failed, count, maxc) ==
    IF maxc # NoData /\ maxc # 0 /\ count > maxc
        THEN <<"stopped", "max_cycles">>
    ELSE <<"sleeping", "none">>

after_cycle_reraise(failed, count, maxc) ==
    IF failed THEN <<"stopped", "error">>
    ELSE IF maxc # NoData /\ maxc # 0 /\ count >= maxc
        THEN <<"stopped", "max_cycles">>
    ELSE <<"sleeping", "none">>

after_cycle(failed, count, maxc) ==
    IF maxc # NoData /\ maxc # 0 /\ count >= maxc
        THEN <<"stopped", "max_cycles">>
    ELSE <<"sleeping", "none">>

\* _build_graph: the entry point and the edges of the compiled graph; END
\* is the return of run_cycle
EntryPoint == "search_news"

next_node_skips_analysis(node) ==
    CASE node = "search_news" -> "fetch_markets"
      [] node = "fetch_markets" -> "detect_opportunities"
      [] node = "analyze_impacts" -> "detect_opportunities"
      [] node = "detect_opportunities" -> "generate_alerts"
      [] node = "generate_alerts" -> "cycle_returned"

next_node(node) ==
    CASE node = "search_news" -> "fetch_markets"
      [] node = "fetch_markets" -> "analyze_impacts"
      [] node = "analyze_impacts" -> "detect_opportunities"
      [] node = "detect_opportunities" -> "generate_alerts"
      [] node = "generate_alerts" -> "cycle_returned"

CycInit ==
    /\ cyc_pc = "loop_top"
    /\ state = InitialState
    /\ news_cache = {}
    /\ cycle_count = 0
    /\ max_cycles \in {NoData, 0, 1, 2}
    /\ stop_reason = "none"
    /\ cycle_result = NoResult
    /\ cyc_raised = {}
    /\ published = {}
    /\ cyc_trace = <<>>
    /\ cyc_partial = {}
    /\ cyc_searched = NoSearch

CycIdle ==
    /\ cyc_pc = "loop_top"
    /\ state = InitialState
    /\ news_cache = {}
    /\ cycle_count = 0
    /\ max_cycles = NoData
    /\ stop_reason = "none"
    /\ cycle_result = NoResult
    /\ cyc_raised = {}
    /\ published = {}
    /\ cyc_trace = <<>>
    /\ cyc_partial = {}
    /\ cyc_searched = NoSearch

\* run_continuous: top of the while loop
LoopBegin ==
    /\ cyc_pc = "loop_top"
    /\ cycle_count < MaxLoopCycles
    /\ cycle_count' = cycle_count + 1
    /\ cyc_pc' = "run_cycle"
    /\ UNCHANGED <<state, news_cache, max_cycles, stop_reason, cycle_result,
                   cyc_raised, published>>
    /\ UNCHANGED <<cyc_trace, cyc_partial>>
    /\ UNCHANGED cyc_searched
    /\ UNCHANGED notCycVars

\* run_cycle up to the call of the graph: the initial state is built.  An
\* exception raised here is not inside run_cycle's try and escapes to
\* run_continuous.
RunCycleStart ==
    /\ cyc_pc = "run_cycle"
    /\ \E escapes \in BOOLEAN :
        IF escapes
          THEN /\ cyc_pc' = "cycle_escaped"
               /\ cyc_raised' = {"run_cycle"}
               /\ UNCHANGED state
          ELSE /\ cyc_pc' = EntryPoint
               /\ state' = InitialState
               /\ cyc_raised' = {}
    /\ UNCHANGED <<news_cache, cycle_count, max_cycles, stop_reason,
                   cycle_result, published>>
    /\ cyc_trace' = <<>>
    /\ UNCHANGED cyc_partial
    /\ cyc_searched' = NoSearch
    /\ UNCHANGED notCycVars

\* Node search_news
SearchNews ==
    /\ cyc_pc = "search_news"
    /\ \/ /\ state' = search_news_failed(state)
          /\ cyc_raised' = cyc_raised \cup {"search_news"}
          /\ UNCHANGED <<news_cache, cyc_searched>>
       \/ \E articles \in SearchResults :
            LET d == Deduplicate(validated_articles(articles), news_cache)
            IN /\ state' = [state EXCEPT !.news_articles = d.new]
               /\ news_cache' = d.cache
               /\ cyc_searched' = search_counts(articles)
               /\ UNCHANGED cyc_raised
    /\ cyc_pc' = next_node("search_news")
    /\ UNCHANGED <<cycle_count, max_cycles, stop_reason, cycle_result, published>>
    /\ cyc_trace' = Append(cyc_trace, "search_news")
    /\ UNCHANGED cyc_partial
    /\ UNCHANGED notCycVars

\* Node fetch_markets
FetchMarkets ==
    /\ cyc_pc = "fetch_markets"
    /\ \/ /\ state' = fetch_markets_failed(state)
          /\ cyc_raised' = cyc_raised \cup {"fetch_markets"}
       \/ \E markets \in MarketLists, prices \in [MarketIds -> PriceOutcomes] :
            /\ state' = [state EXCEPT !.markets = markets,
                                      !.market_data = market_data_map(markets, prices)]
            /\ UNCHANGED cyc_raised
    /\ cyc_pc' = next_node("fetch_markets")
    /\ UNCHANGED <<news_cache, cycle_count, max_cycles, stop_reason,
                   cycle_result, published>>
    /\ cyc_trace' = Append(cyc_trace, "fetch_markets")
    /\ UNCHANGED cyc_partial
    /\ UNCHANGED cyc_searched
    /\ UNCHANGED notCycVars

\* Node analyze_impacts
AnalyzeImpacts ==
    /\ cyc_pc = "analyze_impacts"
    /\ LET pairs == AssessedPairs(state)
       IN \E outcomes \in [1..Len(pairs) -> assess_outcomes(pr_api_key)] :
            /\ state' = [state EXCEPT
                            !.market_impacts = analyze_pairs(pairs, outcomes, 1)]
            /\ cyc_raised' =
                 IF \E k \in 1..Len(pairs) : outcomes[k] = AssessRaise
                   THEN cyc_raised \cup {"analyze_impacts"} ELSE cyc_raised
    /\ cyc_pc' = next_node("analyze_impacts")
    /\ UNCHANGED <<news_cache, cycle_count, max_cycles, stop_reason,
                   cycle_result, published>>
    /\ cyc_trace' = Append(cyc_trace, "analyze_impacts")
    /\ UNCHANGED cyc_partial
    /\ UNCHANGED cyc_searched
    /\ UNCHANGED notCycVars

\* Node detect_opportunities
DetectNode ==
    /\ cyc_pc = "detect_opportunities"
    /\ \/ /\ state' = detect_opportunities_failed(state)
          /\ cyc_raised' = cyc_raised \cup {"detect_opportunities"}
       \/ /\ state' = [state EXCEPT !.opportunities =
                          detect_opportunities(state.market_impacts, state.market_data,
                                               confidence_threshold, min_profit_margin)]
          /\ UNCHANGED cyc_raised
    /\ cyc_pc' = next_node("detect_opportunities")
    /\ UNCHANGED <<news_cache, cycle_count, max_cycles, stop_reason,
                   cycle_result, published>>
    /\ cyc_trace' = Append(cyc_trace, "detect_opportunities")
    /\ UNCHANGED cyc_partial
    /\ UNCHANGED cyc_searched
    /\ UNCHANGED notCycVars

\* Node generate_alerts, followed by the return of run_cycle.  create_alert
\* may raise for an opportunity (caught in the loop); export_json, called
\* after the loop when there are alerts, may raise out of the node, in which
\* case run_cycle returns its initial_state with "Cycle failed" appended.
GenerateAlerts ==
    /\ cyc_pc = "generate_alerts"
    /\ \E created \in [1..Len(state.opportunities) -> BOOLEAN], export_ok \in BOOLEAN :
        LET alerts == build_alerts(state, created, 1)
            done == generate_alerts_done(state, alerts)
            raised == IF \E k \in 1..Len(created) : ~created[k]
                        THEN {"generate_alerts"} ELSE {}
        IN /\ export_ok \/ alerts # <<>>
           /\ state' = done
           /\ published' = published \cup {alerts[k].opportunity_id : k \in 1..Len(alerts)}
           /\ IF export_ok
                THEN /\ cycle_result' = [returned |-> TRUE, value |-> done]
                     /\ cyc_raised' = cyc_raised \cup raised
                ELSE /\ cycle_result' \in
                        {[returned |-> TRUE,
                          value |-> [InitialState EXCEPT !.errors = e]] :
                            e \in {<<"Cycle failed">>,
                                   Append(state.errors, "Cycle failed")}}
                     /\ cyc_raised' = cyc_raised \cup raised \cup {"export_json"}
    /\ cyc_pc' = next_node("generate_alerts")
    /\ UNCHANGED <<news_cache, cycle_count, max_cycles, stop_reason>>
    /\ cyc_trace' = Append(cyc_trace, "generate_alerts")
    /\ UNCHANGED cyc_partial
    /\ UNCHANGED cyc_searched
    /\ UNCHANGED notCycVars

\* run_continuous after run_cycle returned, or after the inner except clause
\* logged an exception that escaped it: the max_cycles test, else the sleep.
AfterCycle ==
    /\ cyc_pc \in {"cycle_returned", "cycle_escaped"}
    /\ LET next == after_cycle(cyc_pc = "cycle_escaped", cycle_count, max_cycles)
       IN /\ cyc_pc' = next[1]
          /\ stop_reason' = next[2]
    \* the value run_cycle returned is not kept by run_continuous
    /\ state' = InitialState
    /\ cycle_result' = NoResult
    /\ UNCHANGED <<news_cache, cycle_count, max_cycles, cyc_raised, published>>
    /\ UNCHANGED <<cyc_trace, cyc_partial>>
    /\ cyc_searched' = NoSearch
    /\ UNCHANGED notCycVars

\* asyncio.sleep(cycle_interval) returns
SleepDone ==
    /\ cyc_pc = "sleeping"
    /\ cyc_pc' = "loop_top"
    /\ UNCHANGED <<state, news_cache, cycle_count, max_cycles, stop_reason,
                   cycle_result, cyc_raised, published>>
    /\ UNCHANGED <<cyc_trace, cyc_partial>>
    /\ UNCHANGED cyc_searched
    /\ UNCHANGED notCycVars

\* An external interrupt (KeyboardInterrupt or task cancellation) arrives
\* while the task is in a cycle or asleep; neither is an Exception, so no
\* handler of run_cycle or of the stages catches it.
Interrupt ==
    /\ cyc_pc \in {"run_cycle", "search_news", "fetch_markets", "analyze_impacts",
                   "detect_opportunities", "generate_alerts", "cycle_returned",
                   "cycle_escaped", "sleeping"}
    /\ cyc_pc' = "stopped"
    /\ stop_reason' = "interrupt"
    \* the work of the interrupted cycle is dropped with its task
    /\ state' = InitialState
    /\ cycle_result' = NoResult
    /\ UNCHANGED <<news_cache, cycle_count, max_cycles, cyc_raised, published>>
    /\ UNCHANGED <<cyc_trace, cyc_partial>>
    /\ cyc_searched' = NoSearch
    /\ UNCHANGED notCycVars

\* The interrupt arrives inside the loop of generate_alerts, after create_alert
\* has returned or raised for the first k opportunities: each alert it built
\* was saved by alert_repo.save and added to the alert store as it was built,
\* and nothing undoes that when the task is torn down.
InterruptAlertLoop ==
    /\ cyc_pc = "generate_alerts"
    /\ \E k \in 1..Len(state.opportunities) :
        \E created \in [1..k -> BOOLEAN] :
          LET seen == [state EXCEPT !.opportunities = Prefix(@, k)]
              alerts == build_alerts(seen, created, 1)
              ids == {alerts[n].opportunity_id : n \in 1..Len(alerts)}
          IN /\ published' = published \cup ids
             /\ cyc_partial' = ids
    /\ cyc_pc' = "stopped"
    /\ stop_reason' = "interrupt"
    /\ state' = InitialState
    /\ cycle_result' = NoResult
    /\ UNCHANGED <<news_cache, cycle_count, max_cycles, cyc_raised, cyc_trace>>
    /\ cyc_searched' = NoSearch
    /\ UNCHANGED notCycVars

NextCycle ==
    \/ LoopBegin
    \/ RunCycleStart
    \/ SearchNews
    \/ FetchMarkets
    \/ AnalyzeImpacts
    \/ DetectNode
    \/ GenerateAlerts
    \/ AfterCycle
    \/ SleepDone
    \/ Interrupt
    \/ InterruptAlertLoop

----------------------------------------------------------------------------
(* PolymarketGammaClient: the client operations and the retry of get_markets *)

\* The operations that send a request through _request.
ClientOps == {"get_markets", "get_market", "get_price", "get_order_book"}

\* stop_after_attempt(3) of the retry decorator
MaxAttempts == 3

\* Bound on the number of client calls made in one run.
MaxRtCalls == 2

\* What one HTTP attempt can give: a 2xx answer, a non-2xx answer (404 apart,
\* which get_market reads as "not found"), an httpx.NetworkError, or an
\* httpx.TimeoutException.
AttemptOutcomes == {"ok", "http_error", "http_404", "network_error", "timeout"}

\* _request: what it gives its caller for one attempt.  Non-2xx answers and
\* NetworkError become PolymarketClientError; a timeout is none of the two
\* exception types _request catches and passes through unchanged.
request_result(outcome) ==
    CASE outcome = "ok" -> "ok"
      [] outcome \in {"http_error", "http_404", "network_error"} ->
            "PolymarketClientError"
      [] OTHER -> "TimeoutException"

\* Whether the operation is wrapped by the retry decorator.
has_retry(op) == op = "get_markets"

\* retry_if_exception_type(PolymarketClientError) with stop_after_attempt:
\* whether another attempt follows the one that gave this result
retries_again(op, result, attempts) ==
    /\ has_retry(op)
    /\ result = "PolymarketClientError"
    /\ attempts < MaxAttempts

\* What the caller of the operation gets once no further attempt follows.
\* The decorator has no reraise option, so exhausted attempts surface as
\* tenacity's RetryError; get_market turns a 404 into None.
call_result(op, outcome) ==
    LET result == request_result(outcome)
    IN IF has_retry(op) /\ result = "PolymarketClientError"
         THEN "RetryError"
       ELSE IF op = "get_market" /\ outcome = "http_404" THEN "None"
       ELSE result

RetryInit ==
    /\ rt_pc = "idle"
    /\ rt_op = "none"
    /\ rt_log = <<>>
    /\ rt_result = "none"
    /\ rt_calls = 0

RetryIdle == RetryInit

\* A stage calls a client operation.
RtCall(op) ==
    /\ rt_pc = "idle"
    /\ rt_calls < MaxRtCalls
    /\ rt_pc' = "attempt"
    /\ rt_op' = op
    /\ rt_log' = <<>>
    /\ rt_result' = "none"
    /\ UNCHANGED rt_calls
    /\ UNCHANGED notRetryVars

\* One pass through the body of the operation: _request sends the request.
RtAttempt(outcome) ==
    /\ rt_pc = "attempt"
    /\ rt_log' = Append(rt_log, outcome)
    /\ IF retries_again(rt_op, request_result(outcome), Len(rt_log) + 1)
         THEN /\ rt_pc' = "backoff"
              /\ UNCHANGED rt_result
         ELSE /\ rt_pc' = "done"
              /\ rt_result' = call_result(rt_op, outcome)
    /\ UNCHANGED <<rt_op, rt_calls>>
    /\ UNCHANGED notRetryVars

\* The wait_exponential sleep between two attempts ends.
RtBackoffDone ==
    /\ rt_pc = "backoff"
    /\ rt_pc' = "attempt"
    /\ UNCHANGED <<rt_op, rt_log, rt_result, rt_calls>>
    /\ UNCHANGED notRetryVars

\* The caller takes the result.
RtReturn ==
    /\ rt_pc = "done"
    /\ rt_pc' = "idle"
    /\ rt_calls' = rt_calls + 1
    /\ UNCHANGED <<rt_op, rt_log, rt_result>>
    /\ UNCHANGED notRetryVars

NextRetry ==
    \/ \E op \in ClientOps : RtCall(op)
    \/ \E outcome \in AttemptOutcomes : RtAttempt(outcome)
    \/ RtBackoffDone
    \/ RtReturn

----------------------------------------------------------------------------
(* ReasoningClient.analyze_impact *)

\* Field(min_length=10, max_length=1000) of MarketImpact.reasoning
MinReasoningLen == 10
MaxReasoningLen == 1000

\* Length of the text "Failed to analyze: " that _create_neutral_impact puts
\* before the error, and of the text a failed PriceDirection(value) adds
\* around the value ("'value' is not a valid PriceDirection").
FailedPrefixLen == 19
EnumErrorTextLen == 32

\* Bound on the number of analyze_impact calls in one run.
MaxReasonCalls == 1

\* The "direction" string of the parsed object, with its length.
DirectionValues ==
    {[name |-> "up", len |-> 2],
     [name |-> "sideways", len |-> 8],
     [name |-> "garbled", len |-> 1000]}

PriceDirections == {"up", "down", "neutral"}

\* Everything the environment decides for one call: whether an API key is
\* configured, whether the rate limiter made the call wait, whether the model
\* call raised, whether the answer could be parsed, the fields of the parsed
\* object (hundredths; lengths in characters), and the word overlap and
\* sentiment the keyword heuristic finds in the article.
ReasonInputs ==
    [api_key : BOOLEAN, waited : BOOLEAN, call : {"ok", "raise"},
     parsed : {"none", "object"},
     relevance : {-10, 80, 150}, confidence : {75, 150},
     expected_magnitude : {15, 150}, expected_price : {65, 150},
     direction : DirectionValues, reasoning_len : {5, 50, 1200},
     overlap : {0, 50}, sentiment : PriceDirections]

NoAssessment == [kind |-> "none"]

\* _fallback_reasoning
fallback_reasoning(in) ==
    [relevance |-> in.overlap,
     direction |-> [name |-> in.sentiment, len |-> Len(in.sentiment)],
     confidence |-> 40,
     expected_magnitude |-> 10,
     expected_price |-> CASE in.sentiment = "up" -> 60
                          [] in.sentiment = "down" -> 40
                          [] OTHER -> 50,
     reasoning_len |-> 100,
     path |-> "fallback"]

\* _perform_reasoning: the response dictionary
perform_reasoning(in) ==
    IF ~in.api_key THEN fallback_reasoning(in)
    ELSE IF in.call = "raise" THEN fallback_reasoning(in)
    ELSE IF in.parsed = "none" THEN fallback_reasoning(in)
    ELSE [relevance |-> in.relevance, direction |-> in.direction,
          confidence |-> in.confidence,
          expected_magnitude |-> in.expected_magnitude,
          expected_price |-> in.expected_price,
          reasoning_len |-> in.reasoning_len,
          path |-> "model"]

InUnit(x) == 0 <= x /\ x <= 100

\* The field constraints of MarketImpact
impact_valid(response) ==
    /\ InUnit(response.relevance)
    /\ InUnit(response.confidence)
    /\ InUnit(response.expected_magnitude)
    /\ InUnit(response.expected_price)
    /\ MinReasoningLen <= response.reasoning_len
    /\ response.reasoning_len <= MaxReasoningLen

\* _create_neutral_impact: its reasoning "Failed to analyze: <error>" is
\* subject to the same length constraint; fits says whether an error text of
\* error_len characters passes it.
neutral_reasoning_fits(error_len) ==
    FailedPrefixLen + error_len <= MaxReasoningLen

create_neutral_impact(fits) ==
    IF ~fits
      THEN [kind |-> "raised"]
      ELSE [kind |-> "impact", relevance |-> 0, direction |-> "neutral",
            confidence |-> 0, expected_magnitude |-> 0, expected_price |-> 50,
            path |-> "neutral"]

\* analyze_impact: what the caller gets.  PriceDirection(response["direction"])
\* is evaluated before MarketImpact validates anything, and its ValueError
\* quotes the whole rejected string.  The text of the ValidationError for a
\* field out of range names the field and its constraint in a few lines and
\* is taken to fit.
analyze_impact(in) ==
    LET response == perform_reasoning(in)
    IN IF response.direction.name \notin PriceDirections
         THEN create_neutral_impact(
                  neutral_reasoning_fits(response.direction.len + EnumErrorTextLen))
       ELSE IF ~impact_valid(response)
         THEN create_neutral_impact(TRUE)
       ELSE [kind |-> "impact", relevance |-> response.relevance,
             direction |-> response.direction.name,
             confidence |-> response.confidence,
             expected_magnitude |-> response.expected_magnitude,
             expected_price |-> response.expected_price,
             path |-> response.path]

ReasonInit ==
    /\ ra_input \in ReasonInputs
    /\ ra_result = NoAssessment
    /\ ra_calls = 0

ReasonIdle ==
    /\ ra_input = CHOOSE in \in ReasonInputs : TRUE
    /\ ra_result = NoAssessment
    /\ ra_calls = 0

\* The orchestrator calls analyze_impact for a (news, market) pair.
AnalyzeImpact ==
    /\ ra_calls < MaxReasonCalls
    /\ ra_result' = analyze_impact(ra_input)
    /\ ra_calls' = ra_calls + 1
    /\ UNCHANGED ra_input
    /\ UNCHANGED notReasonVars

NextReasoning == AnalyzeImpact

----------------------------------------------------------------------------
(* MetricsCollector and the shared metrics store *)

\* Bounds of the metrics model: cycles started, end_cycle calls, and errors
\* tracked in one cycle.
MaxMetricCycles == 3
MaxMetricEnds == 3
MaxTrackedErrors == 1

\* The attributes a CycleMetrics object has: its dataclass fields and its
\* properties.
CycleMetricsAttributes ==
    {"cycle_id", "start_time", "end_time", "news_articles_fetched",
     "news_articles_new", "markets_fetched", "markets_with_prices",
     "impacts_analyzed", "impacts_significant", "reasoning_time_total",
     "opportunities_detected", "opportunities_high_confidence",
     "alerts_generated", "alerts_by_severity", "api_calls", "errors",
     "duration_seconds", "news_to_alert_rate", "opportunity_detection_rate"}

\* The attributes ThreadSafeMetricsStore.add reads from its argument.
MetricsStoreReads ==
    {"cycle_id", "start_time", "end_time", "duration_seconds",
     "news_articles_fetched", "news_articles_new", "markets_fetched",
     "markets_with_prices", "impacts_analyzed", "impacts_significant",
     "reasoning_time_total", "opportunities_detected",
     "opportunities_high_confidence", "alerts_generated", "api_calls",
     "error_count", "news_to_alert_rate", "opportunity_detection_rate"}

NoCycle == [cycle_id |-> 0, ended |-> FALSE, errors |-> 0]

\* ThreadSafeMetricsStore.add(metrics) for a CycleMetrics object: building
\* metrics_dict raises AttributeError at the first attribute the object lacks,
\* before anything is appended.
metrics_store_add(items, metrics) ==
    IF MetricsStoreReads \subseteq CycleMetricsAttributes
      THEN Append(items, metrics.cycle_id)
      ELSE items

MetInit ==
    /\ mc_current = NoCycle
    /\ mc_history = <<>>
    /\ mc_persisted = <<>>
    /\ mc_store = <<>>
    /\ mc_next_id = 1

MetIdle == MetInit

\* MetricsCollector.start_cycle
StartCycle ==
    /\ mc_next_id <= MaxMetricCycles
    /\ mc_current' = [cycle_id |-> mc_next_id, ended |-> FALSE, errors |-> 0]
    /\ mc_next_id' = mc_next_id + 1
    /\ UNCHANGED <<mc_history, mc_persisted, mc_store>>
    /\ UNCHANGED notMetVars

\* MetricsCollector.track_error
TrackError ==
    /\ mc_current # NoCycle
    /\ mc_current.errors < MaxTrackedErrors
    /\ mc_current' = [mc_current EXCEPT !.errors = @ + 1]
    /\ UNCHANGED <<mc_history, mc_persisted, mc_store, mc_next_id>>
    /\ UNCHANGED notMetVars

\* MetricsCollector.end_cycle with a current cycle; save_ok says whether
\* MetricsRepository.save returned (a failure is logged and swallowed, as is
\* the failure of the store's add).
EndCycle(save_ok) ==
    /\ mc_current # NoCycle
    /\ Len(mc_history) < MaxMetricEnds
    /\ mc_current' = [mc_current EXCEPT !.ended = TRUE]
    /\ mc_history' = Append(mc_history, mc_current')
    /\ mc_persisted' = IF save_ok THEN Append(mc_persisted, mc_current.cycle_id)
                       ELSE mc_persisted
    /\ mc_store' = metrics_store_add(mc_store, mc_current')
    /\ UNCHANGED mc_next_id
    /\ UNCHANGED notMetVars

NextMetrics ==
    \/ StartCycle
    \/ TrackError
    \/ \E save_ok \in BOOLEAN : EndCycle(save_ok)

----------------------------------------------------------------------------
(* One ThreadSafeAlertStore / ThreadSafeMetricsStore used by several threads *)

Threads == {"t1", "t2"}

NoThread == "none"

\* Bound on the number of add calls made by the threads together.
MaxLkAdds == 3

StoreCalls == {"add", "get_recent", "get_all", "count", "clear"}

NoCall == [op |-> "none", id |-> 0, limit |-> 0, slice |-> <<>>]

NoRead == [op |-> "none"]

\* "with self._lock": whether thread t may enter now
can_acquire_unlocked(owner, t) == TRUE

can_acquire(owner, t) == owner = NoThread \/ owner = t

\* The value a read call returns for the list it finds.
read_value(op, items, limit) ==
    CASE op = "get_recent" -> get_recent(items, limit)
      [] op = "get_all" -> items
      [] OTHER -> <<Len(items)>>

LockInit ==
    /\ lk_owner = NoThread
    /\ lk_pc = [t \in Threads |-> "idle"]
    /\ lk_local = [t \in Threads |-> NoCall]
    /\ lk_items = <<>>
    /\ lk_abstract = <<>>
    /\ lk_read = NoRead
    /\ lk_next_id = 1
    /\ lk_max_size \in 1..MaxCapacity

LockIdle ==
    /\ lk_owner = NoThread
    /\ lk_pc = [t \in Threads |-> "idle"]
    /\ lk_local = [t \in Threads |-> NoCall]
    /\ lk_items = <<>>
    /\ lk_abstract = <<>>
    /\ lk_read = NoRead
    /\ lk_next_id = 1
    /\ lk_max_size = 1

\* Thread t calls a store operation and reaches its "with self._lock".
LkCall(t, op) ==
    /\ lk_pc[t] = "idle"
    /\ op = "add" => lk_next_id <= MaxLkAdds
    /\ \E limit \in 1..MaxLimit :
         lk_local' = [lk_local EXCEPT ![t] =
                        [op |-> op,
                         id |-> IF op = "add" THEN lk_next_id ELSE 0,
                         limit |-> IF op = "get_recent" THEN limit ELSE 0,
                         slice |-> <<>>]]
    /\ lk_next_id' = IF op = "add" THEN lk_next_id + 1 ELSE lk_next_id
    /\ lk_pc' = [lk_pc EXCEPT ![t] = "waiting"]
    /\ UNCHANGED <<lk_owner, lk_items, lk_abstract, lk_read, lk_max_size>>
    /\ UNCHANGED notLockVars

\* Thread t enters the "with self._lock" block.
LkAcquire(t) ==
    /\ lk_pc[t] = "waiting"
    /\ can_acquire(lk_owner, t)
    /\ lk_owner' = t
    /\ lk_pc' = [lk_pc EXCEPT ![t] = "locked"]
    /\ UNCHANGED <<lk_local, lk_items, lk_abstract, lk_read, lk_next_id,
                   lk_max_size>>
    /\ UNCHANGED notLockVars

\* add: self._alerts.append(alert_dict)
LkAppend(t) ==
    /\ lk_pc[t] = "locked" /\ lk_local[t].op = "add"
    /\ lk_items' = Append(lk_items, lk_local[t].id)
    /\ IF Len(lk_items') > lk_max_size
         THEN /\ lk_pc' = [lk_pc EXCEPT ![t] = "trim"]
              /\ UNCHANGED lk_abstract
         ELSE /\ lk_pc' = [lk_pc EXCEPT ![t] = "release"]
              /\ lk_abstract' = StoreAppend(lk_abstract, lk_max_size, lk_local[t].id)
    /\ UNCHANGED <<lk_owner, lk_local, lk_read, lk_next_id, lk_max_size>>
    /\ UNCHANGED notLockVars

\* add: the right-hand side self._alerts[-self._max_size:] is evaluated
LkSlice(t) ==
    /\ lk_pc[t] = "trim"
    /\ lk_local' = [lk_local EXCEPT ![t].slice = LastSlice(lk_items, lk_max_size)]
    /\ lk_pc' = [lk_pc EXCEPT ![t] = "assign"]
    /\ UNCHANGED <<lk_owner, lk_items, lk_abstract, lk_read, lk_next_id,
                   lk_max_size>>
    /\ UNCHANGED notLockVars

\* add: the slice is assigned to self._alerts
LkAssign(t) ==
    /\ lk_pc[t] = "assign"
    /\ lk_items' = lk_local[t].slice
    /\ lk_abstract' = StoreAppend(lk_abstract, lk_max_size, lk_local[t].id)
    /\ lk_pc' = [lk_pc EXCEPT ![t] = "release"]
    /\ UNCHANGED <<lk_owner, lk_local, lk_read, lk_next_id, lk_max_size>>
    /\ UNCHANGED notLockVars

\* get_recent / get_all / count: the list is copied or measured
LkRead(t) ==
    /\ lk_pc[t] = "locked"
    /\ lk_local[t].op \in {"get_recent", "get_all", "count"}
    /\ lk_read' = [op |-> lk_local[t].op, thread |-> t,
                   limit |-> lk_local[t].limit,
                   value |-> read_value(lk_local[t].op, lk_items, lk_local[t].limit),
                   committed |-> lk_abstract]
    /\ lk_pc' = [lk_pc EXCEPT ![t] = "release"]
    /\ UNCHANGED <<lk_owner, lk_local, lk_items, lk_abstract, lk_next_id,
                   lk_max_size>>
    /\ UNCHANGED notLockVars

\* clear: self._alerts.clear()
LkClear(t) ==
    /\ lk_pc[t] = "locked" /\ lk_local[t].op = "clear"
    /\ lk_items' = <<>>
    /\ lk_abstract' = <<>>
    /\ lk_pc' = [lk_pc EXCEPT ![t] = "release"]
    /\ UNCHANGED <<lk_owner, lk_local, lk_read, lk_next_id, lk_max_size>>
    /\ UNCHANGED notLockVars

\* Thread t leaves the "with self._lock" block and returns.
LkRelease(t) ==
    /\ lk_pc[t] = "release"
    /\ lk_owner' = NoThread
    /\ lk_pc' = [lk_pc EXCEPT ![t] = "idle"]
    /\ lk_local' = [lk_local EXCEPT ![t] = NoCall]
    /\ UNCHANGED <<lk_items, lk_abstract, lk_read, lk_next_id, lk_max_size>>
    /\ UNCHANGED notLockVars

NextLocked ==
    \/ \E t \in Threads, op \in StoreCalls : LkCall(t, op)
    \/ \E t \in Threads : LkAcquire(t)
    \/ \E t \in Threads : LkAppend(t)
    \/ \E t \in Threads : LkSlice(t)
    \/ \E t \in Threads : LkAssign(t)
    \/ \E t \in Threads : LkRead(t)
    \/ \E t \in Threads : LkClear(t)
    \/ \E t \in Threads : LkRelease(t)

----------------------------------------------------------------------------
(* repair_json and the JSON texts it parses *)

\* A text is the sequence of its characters; the double quote, the backslash
\* and the line feed are written by name.
Quote == "quote"
Backslash == "backslash"
Newline == "newline"

\* What the whitespace, control character, digit and word classes of the
\* regular expressions match among the characters used.
WhitespaceChars == {" ", Newline}
ControlChars == {Newline}
DigitChars == <<"0", "1", "2", "3", "4", "5", "6", "7", "8", "9">>
Letters == {"a", "b", "c", "e", "f", "j", "l", "n", "o", "r", "s", "t", "u", "x", "y"}
WordChars == Letters \cup Range(DigitChars)

\* Python values: None, bool, non-negative int, str, list, tuple and dict (a
\* dict is the sequence of its <<key, value>> pairs in insertion order).
PyNone == [t |-> "NoneType"]
PyBool(b) == [t |-> "bool", b |-> b]
PyInt(n) == [t |-> "int", n |-> n]
PyStr(s) == [t |-> "str", s |-> s]
PyList(items) == [t |-> "list", items |-> items]
PyTuple(items) == [t |-> "tuple", items |-> items]
PyDict(pairs) == [t |-> "dict", pairs |-> pairs]

\* Longest run of digits the interpreter converts to an int
\* (sys.int_info.default_max_str_digits, scaled down).
IntMaxStrDigits == 3

\* Bound on the length of the lists and tuples handed to json.dumps.
MaxPyItems == 2

RECURSIVE Concat(_)
Concat(parts) ==
    IF Len(parts) = 0 THEN <<>> ELSE Head(parts) \o Concat(Tail(parts))

RECURSIVE Join(_, _)
Join(parts, sep) ==
    IF Len(parts) = 0 THEN <<>>
    ELSE IF Len(parts) = 1 THEN parts[1]
    ELSE parts[1] \o sep \o Join(Tail(parts), sep)

\* str.replace(old, new)
RECURSIVE replace_str(_, _, _)
replace_str(s, old, new) ==
    IF Len(s) < Len(old) THEN s
    ELSE IF SubSeq(s, 1, Len(old)) = old
        THEN new \o replace_str(SubSeq(s, Len(old) + 1, Len(s)), old, new)
    ELSE <<Head(s)>> \o replace_str(Tail(s), old, new)

\* str.count(c)
CountChar(s, c) == Cardinality({i \in 1..Len(s) : s[i] = c})

\* ---- json.dumps with its default separators ----

RECURSIVE int_digits(_)
int_digits(n) ==
    IF n < Len(DigitChars) THEN <<DigitChars[n + 1]>>
    ELSE Append(int_digits(n \div Len(DigitChars)),
                DigitChars[(n % Len(DigitChars)) + 1])

escape_char(c) ==
    IF c = Quote THEN <<Backslash, Quote>>
    ELSE IF c = Backslash THEN <<Backslash, Backslash>>
    ELSE IF c = Newline THEN <<Backslash, "n">>
    ELSE <<c>>

dumps_str(s) ==
    <<Quote>> \o Concat([i \in 1..Len(s) |-> escape_char(s[i])]) \o <<Quote>>

\* a key that is an int is written as the string of its digits
dumps_key(k) ==
    IF k.t = "int" THEN <<Quote>> \o int_digits(k.n) \o <<Quote>>
    ELSE dumps_str(k.s)

RECURSIVE json_dumps(_)
json_dumps(x) ==
    CASE x.t = "NoneType" -> <<"n", "u", "l", "l">>
      [] x.t = "bool" -> IF x.b THEN <<"t", "r", "u", "e">>
                         ELSE <<"f", "a", "l", "s", "e">>
      [] x.t = "int" -> int_digits(x.n)
      [] x.t = "str" -> dumps_str(x.s)
      [] x.t \in {"list", "tuple"} ->
            <<"[">> \o Join([i \in 1..Len(x.items) |-> json_dumps(x.items[i])],
                            <<",", " ">>) \o <<"]">>
      [] x.t = "dict" ->
            <<"{">> \o Join([i \in 1..Len(x.pairs) |->
                                dumps_key(x.pairs[i][1]) \o <<":", " ">>
                                \o json_dumps(x.pairs[i][2])],
                            <<",", " ">>) \o <<"}">>

\* ---- json.loads ----
\* The texts of the model hold no sign, fraction, exponent, NaN or Infinity,
\* and no escape other than those of the quote, the backslash and the line
\* feed.

JsonOk(v, next) == [ok |-> TRUE, value |-> v, next |-> next]
JsonFail(e) == [ok |-> FALSE, error |-> e]

RECURSIVE skip_whitespace(_, _)
skip_whitespace(s, i) ==
    IF i <= Len(s) /\ s[i] \in WhitespaceChars THEN skip_whitespace(s, i + 1) ELSE i

RECURSIVE digits_end(_, _)
digits_end(s, i) ==
    IF i <= Len(s) /\ s[i] \in Range(DigitChars) THEN digits_end(s, i + 1) ELSE i

DigitValue(c) == (CHOOSE k \in 1..Len(DigitChars) : DigitChars[k] = c) - 1

RECURSIVE digits_value(_)
digits_value(ds) ==
    IF Len(ds) = 0 THEN 0
    ELSE digits_value(SubSeq(ds, 1, Len(ds) - 1)) * Len(DigitChars)
         + DigitValue(ds[Len(ds)])

\* an integer literal starting at s[i]: 0, or a run of digits not starting
\* with 0; int() refuses a run longer than the interpreter's limit
parse_number(s, i) ==
    LET j == IF s[i] = "0" THEN i + 1 ELSE digits_end(s, i)
    IN IF j - i > IntMaxStrDigits THEN JsonFail("ValueError")
       ELSE JsonOk(PyInt(digits_value(SubSeq(s, i, j - 1))), j)

\* the rest of a string literal whose opening quote is at s[i - 1]
RECURSIVE parse_string(_, _, _)
parse_string(s, i, acc) ==
    IF i > Len(s) THEN JsonFail("JSONDecodeError")
    ELSE IF s[i] = Quote THEN JsonOk(PyStr(acc), i + 1)
    ELSE IF s[i] \in ControlChars THEN JsonFail("JSONDecodeError")
    ELSE IF s[i] = Backslash
        THEN IF i + 1 > Len(s) THEN JsonFail("JSONDecodeError")
             ELSE IF s[i + 1] = Quote THEN parse_string(s, i + 2, Append(acc, Quote))
             ELSE IF s[i + 1] = Backslash
                 THEN parse_string(s, i + 2, Append(acc, Backslash))
             ELSE IF s[i + 1] = "n" THEN parse_string(s, i + 2, Append(acc, Newline))
             ELSE JsonFail("JSONDecodeError")
    ELSE parse_string(s, i + 1, Append(acc, s[i]))

starts_with(s, i, word) ==
    /\ i + Len(word) - 1 <= Len(s)
    /\ SubSeq(s, i, i + Len(word) - 1) = word

\* a repeated key keeps its place and takes the later value
dict_set(pairs, k, v) ==
    IF \E n \in 1..Len(pairs) : pairs[n][1] = k
      THEN [n \in 1..Len(pairs) |-> IF pairs[n][1] = k THEN <<k, v>> ELSE pairs[n]]
      ELSE Append(pairs, <<k, v>>)

RECURSIVE parse_value(_, _), parse_elements(_, _, _), parse_members(_, _, _)

\* the value starting at s[i]
parse_value(s, i) ==
    IF i > Len(s) THEN JsonFail("JSONDecodeError")
    ELSE IF s[i] = Quote THEN parse_string(s, i + 1, <<>>)
    ELSE IF s[i] = "{"
        THEN LET j == skip_whitespace(s, i + 1)
             IN IF j <= Len(s) /\ s[j] = "}" THEN JsonOk(PyDict(<<>>), j + 1)
                ELSE parse_members(s, j, <<>>)
    ELSE IF s[i] = "["
        THEN LET j == skip_whitespace(s, i + 1)
             IN IF j <= Len(s) /\ s[j] = "]" THEN JsonOk(PyList(<<>>), j + 1)
                ELSE parse_elements(s, j, <<>>)
    ELSE IF starts_with(s, i, <<"n", "u", "l", "l">>)
        THEN JsonOk(PyNone, i + Len(<<"n", "u", "l", "l">>))
    ELSE IF starts_with(s, i, <<"t", "r", "u", "e">>)
        THEN JsonOk(PyBool(TRUE), i + Len(<<"t", "r", "u", "e">>))
    ELSE IF starts_with(s, i, <<"f", "a", "l", "s", "e">>)
        THEN JsonOk(PyBool(FALSE), i + Len(<<"f", "a", "l", "s", "e">>))
    ELSE IF s[i] \in Range(DigitChars) THEN parse_number(s, i)
    ELSE JsonFail("JSONDecodeError")

\* the elements of an array, the next one starting at s[i]
parse_elements(s, i, acc) ==
    LET v == parse_value(s, i)
    IN IF ~v.ok THEN v
       ELSE LET j == skip_whitespace(s, v.next)
            IN IF j > Len(s) THEN JsonFail("JSONDecodeError")
               ELSE IF s[j] = ","
                   THEN parse_elements(s, skip_whitespace(s, j + 1),
                                       Append(acc, v.value))
               ELSE IF s[j] = "]" THEN JsonOk(PyList(Append(acc, v.value)), j + 1)
               ELSE JsonFail("JSONDecodeError")

\* the members of an object, the next key starting at s[i]
parse_members(s, i, acc) ==
    IF i > Len(s) \/ s[i] # Quote THEN JsonFail("JSONDecodeError")
    ELSE LET k == parse_string(s, i + 1, <<>>)
         IN IF ~k.ok THEN k
            ELSE LET c == skip_whitespace(s, k.next)
                 IN IF c > Len(s) \/ s[c] # ":" THEN JsonFail("JSONDecodeError")
                    ELSE LET v == parse_value(s, skip_whitespace(s, c + 1))
                         IN IF ~v.ok THEN v
                            ELSE LET j == skip_whitespace(s, v.next)
                                     pairs == dict_set(acc, k.value, v.value)
                                 IN IF j > Len(s) THEN JsonFail("JSONDecodeError")
                                    ELSE IF s[j] = ","
                                        THEN parse_members(
                                               s, skip_whitespace(s, j + 1), pairs)
                                    ELSE IF s[j] = "}"
                                        THEN JsonOk(PyDict(pairs), j + 1)
                                    ELSE JsonFail("JSONDecodeError")

\* json.loads: one value, with nothing but whitespace around it
json_loads(s) ==
    LET v == parse_value(s, skip_whitespace(s, 1))
    IN IF ~v.ok THEN v
       ELSE IF skip_whitespace(s, v.next) <= Len(s) THEN JsonFail("JSONDecodeError")
       ELSE v

\* ---- the repairs of repair_json ----

\* Repair 1 (truncated strings): the pattern is a quote, lazily any run of
\* non-quotes, and the end of the text, so only the last quote of the text
\* can begin a match; the end matches at the end or before a final line
\* feed, and a quote is put there.
repair_truncated_string(s) ==
    IF CountChar(s, Quote) = 0 THEN s
    ELSE LET last == CHOOSE i \in 1..Len(s) :
                        /\ s[i] = Quote
                        /\ \A j \in (i + 1)..Len(s) : s[j] # Quote
             at == IF last < Len(s) /\ s[Len(s)] = Newline
                     THEN Len(s) ELSE Len(s) + 1
         IN SubSeq(s, 1, at - 1) \o <<Quote>> \o SubSeq(s, at, Len(s))

\* Repair 2 (missing commas): two quotes with only whitespace between them,
\* a line feed included, become quote, comma, space, quote.
RECURSIVE repair_missing_commas(_)
repair_missing_commas(s) ==
    IF Len(s) = 0 THEN s
    ELSE LET j == skip_whitespace(s, 2)
         IN IF /\ s[1] = Quote
               /\ j <= Len(s)
               /\ s[j] = Quote
               /\ \E k \in 2..(j - 1) : s[k] = Newline
              THEN <<Quote, ",", " ", Quote>>
                   \o repair_missing_commas(SubSeq(s, j + 1, Len(s)))
              ELSE <<s[1]>> \o repair_missing_commas(Tail(s))

\* Repair 3 (trailing commas): a comma followed by whitespace and a closing
\* brace becomes the brace; then a comma directly before a closing bracket
\* is dropped.
RECURSIVE drop_comma_before_brace(_)
drop_comma_before_brace(s) ==
    IF Len(s) = 0 THEN s
    ELSE LET j == skip_whitespace(s, 2)
         IN IF s[1] = "," /\ j <= Len(s) /\ s[j] = "}"
              THEN <<"}">> \o drop_comma_before_brace(SubSeq(s, j + 1, Len(s)))
              ELSE <<s[1]>> \o drop_comma_before_brace(Tail(s))

repair_trailing_commas(s) ==
    replace_str(drop_comma_before_brace(s), <<",", "]">>, <<"]">>)

\* Repair 4 (unquoted property names): a run of word characters followed by
\* whitespace and a colon is put in quotes, the whitespace dropped.
RECURSIVE word_end(_, _)
word_end(s, i) ==
    IF i <= Len(s) /\ s[i] \in WordChars THEN word_end(s, i + 1) ELSE i

RECURSIVE repair_unquoted_names(_)
repair_unquoted_names(s) ==
    IF Len(s) = 0 THEN s
    ELSE IF s[1] \notin WordChars THEN <<s[1]>> \o repair_unquoted_names(Tail(s))
    ELSE LET w == word_end(s, 1)
             c == skip_whitespace(s, w)
         IN IF c <= Len(s) /\ s[c] = ":"
              THEN <<Quote>> \o SubSeq(s, 1, w - 1) \o <<Quote, ":">>
                   \o repair_unquoted_names(SubSeq(s, c + 1, Len(s)))
              ELSE SubSeq(s, 1, w - 1)
                   \o repair_unquoted_names(SubSeq(s, w, Len(s)))

\* Repair 5: every single quote becomes a double quote.
repair_single_quotes(s) == replace_str(s, <<"'">>, <<Quote>>)

\* Repairs 6 and 7: one closing brace / bracket when more were opened
repair_closing_brace(s) ==
    IF CountChar(s, "{") > CountChar(s, "}") THEN Append(s, "}") ELSE s

repair_closing_bracket(s) ==
    IF CountChar(s, "[") > CountChar(s, "]") THEN Append(s, "]") ELSE s

\* Repair 8: control characters are removed.
repair_control_chars(s) == SelectSeq(s, LAMBDA c : c \notin ControlChars)

\* Repair 9: backslash-quote becomes a quote, then backslash-n a space.
repair_escaped_quotes(s) ==
    replace_str(replace_str(s, <<Backslash, Quote>>, <<Quote>>),
                <<Backslash, "n">>, <<" ">>)

\* Repair 10: the text is replaced by the first part of it that is an
\* object holding one object and no other brace.
RECURSIVE next_brace(_, _)
next_brace(s, i) ==
    IF i <= Len(s) /\ s[i] \notin {"{", "}"} THEN next_brace(s, i + 1) ELSE i

\* where the group ends when it starts at the brace s[p]; 0 when it does not
nested_object_end(s, p) ==
    LET b1 == next_brace(s, p + 1)
        b2 == next_brace(s, b1 + 1)
        b3 == next_brace(s, b2 + 1)
    IN IF /\ b3 <= Len(s)
          /\ s[b1] = "{" /\ s[b2] = "}" /\ s[b3] = "}"
         THEN b3 ELSE 0

repair_extract_object(s) ==
    LET starts == {p \in 1..Len(s) : s[p] = "{" /\ nested_object_end(s, p) # 0}
    IN IF starts = {} THEN s
       ELSE LET p == CHOOSE q \in starts : \A r \in starts : q <= r
            IN SubSeq(s, p, nested_object_end(s, p))

\* the list repairs, in its order
Repairs ==
    <<"truncated_string", "missing_commas", "trailing_commas", "unquoted_names",
      "single_quotes", "closing_brace", "closing_bracket", "control_chars",
      "escaped_quotes", "extract_object">>

apply_repair(name, s) ==
    CASE name = "truncated_string" -> repair_truncated_string(s)
      [] name = "missing_commas" -> repair_missing_commas(s)
      [] name = "trailing_commas" -> repair_trailing_commas(s)
      [] name = "unquoted_names" -> repair_unquoted_names(s)
      [] name = "single_quotes" -> repair_single_quotes(s)
      [] name = "closing_brace" -> repair_closing_brace(s)
      [] name = "closing_bracket" -> repair_closing_bracket(s)
      [] name = "control_chars" -> repair_control_chars(s)
      [] name = "escaped_quotes" -> repair_escaped_quotes(s)
      [] name = "extract_object" -> repair_extract_object(s)

\* ---- repair_json ----

Returned(v) == [outcome |-> "returned", value |-> v]
Raised(e) == [outcome |-> "raised", error |-> e]

\* the loop over the repairs: each is applied to the text as given, and the
\* loop catches JSONDecodeError and ValueError
RECURSIVE try_repairs(_, _)
try_repairs(text, k) ==
    IF k > Len(Repairs) THEN Returned(PyNone)
    ELSE LET r == json_loads(apply_repair(Repairs[k], text))
         IN IF r.ok THEN Returned(r.value)
            ELSE IF r.error \in {"JSONDecodeError", "ValueError"}
                THEN try_repairs(text, k + 1)
            ELSE Raised(r.error)

repair_json_trailing_commas_first(text) ==
    LET first == json_loads(repair_trailing_commas(text))
    IN IF first.ok THEN Returned(first.value)
       ELSE IF first.error = "JSONDecodeError" THEN try_repairs(text, 1)
       ELSE Raised(first.error)

\* the text is parsed as given first, and that attempt catches
\* JSONDecodeError only
repair_json(text) ==
    LET first == json_loads(text)
    IN IF first.ok THEN Returned(first.value)
       ELSE IF first.error = "JSONDecodeError" THEN try_repairs(text, 1)
       ELSE Raised(first.error)

\* ---- the calls made ----

PyLeaves ==
    {PyNone, PyBool(TRUE), PyInt(0), PyInt(12), PyStr(<<>>),
     PyStr(<<"a", "'", "s">>), PyStr(<<Quote, Backslash>>), PyStr(<<",", "}">>)}

LeafSeqs == UNION {[1..n -> PyLeaves] : n \in 0..MaxPyItems}

PyKeys == {PyStr(<<"a">>), PyInt(1)}

PyFlat ==
    PyLeaves
    \cup {PyList(s) : s \in LeafSeqs}
    \cup {PyTuple(s) : s \in LeafSeqs}
    \cup {PyDict(<<>>)}
    \cup {PyDict(<< <<k, v>> >>) : k \in PyKeys, v \in PyLeaves}

\* the objects handed to json.dumps
PyValues ==
    PyFlat
    \cup {PyDict(<< <<PyStr(<<"a">>), v>> >>) : v \in PyFlat}
    \cup {PyList(<<v>>) : v \in PyFlat}

\* the texts a model response can hold: output cut off before its last
\* character, the usual malformations, and text that is no JSON at all
CutOff(s) == SubSeq(s, 1, Len(s) - 1)

NotJsonAtAll ==
    <<"n", "o", "t", " ", "j", "s", "o", "n", " ", "a", "t", " ", "a", "l", "l">>

HugeInteger == [i \in 1..(IntMaxStrDigits + 1) |-> "1"]

MalformedTexts ==
    {NotJsonAtAll, HugeInteger, <<>>,
     <<"{", "'", "a", "'", ":", " ", "1", "}">>,
     <<"{", "a", ":", " ", "1", "}">>,
     <<"{", Quote, "a", Quote, ":", " ", "1", ",", "}">>,
     <<"[", "1", ",", "]">>,
     <<"{", Quote, "a", Quote, ":", " ", Quote, "b", Quote, Newline,
       Quote, "c", Quote, ":", " ", "1", "}">>,
     <<"[", "1", Newline, ",", "2", "]">>,
     <<"{", Backslash, Quote, "a", Backslash, Quote, ":", " ", "1", "}">>,
     <<"x", " ", "{", Quote, "a", Quote, ":", " ", "{", Quote, "b", Quote, ":",
       " ", "1", "}", "}", " ", "y">>}

ResponseTexts == MalformedTexts \cup {CutOff(json_dumps(x)) : x \in PyFlat}

NoValue == [t |-> "absent"]
NoRepair == [outcome |-> "none"]

\* The pending call: repair_json(json.dumps(x)) for an object x, or
\* repair_json on the text of a response.
RepairInit ==
    /\ rj_x \in PyValues \cup {NoValue}
    /\ rj_text \in IF rj_x = NoValue THEN ResponseTexts ELSE {json_dumps(rj_x)}
    /\ rj_result = NoRepair

RepairIdle ==
    /\ rj_x = NoValue
    /\ rj_text = <<>>
    /\ rj_result = NoRepair

\* repair_json(json.dumps(x))
RepairDumped ==
    /\ rj_x # NoValue
    /\ rj_result = NoRepair
    /\ rj_result' = repair_json(rj_text)
    /\ UNCHANGED <<rj_x, rj_text>>
    /\ UNCHANGED notRepairVars

\* repair_json(text) on the text of a response
RepairText ==
    /\ rj_x = NoValue
    /\ rj_result = NoRepair
    /\ rj_result' = repair_json(rj_text)
    /\ UNCHANGED <<rj_x, rj_text>>
    /\ UNCHANGED notRepairVars

NextRepair == RepairDumped \/ RepairText

----------------------------------------------------------------------------
(* TelegramNotifier.broadcast_alert *)

\* self.chat_id, and the chats that can subscribe (the owner's among them).
OwnChat == "c0"
ChatIds == {"c0", "c1", "c2"}

\* Bound on the number of active subscribers.
MaxSubscribers == 2

\* AlertSeverity in the order of _severity_below_threshold: INFO, WARNING, CRITICAL.
Severities == {0, 1, 2}

\* The active subscribers: no chat twice (chat_id is the key of the table).
SubscriberLists ==
    {s \in UNION {[1..n -> ChatIds] : n \in 0..MaxSubscribers} :
        \A i, j \in 1..Len(s) : i # j => s[i] # s[j]}

\* One _send_message_to_chat call: the API answers ok or not ok, the request
\* fails with a RequestException, or another exception comes out of it.
DeliveryOutcomes == {"ok", "not_ok", "request_error", "raises"}

\* _severity_below_threshold
severity_below_threshold(severity, min_severity) == severity < min_severity

\* _send_message_to_chat: the chat the request is addressed to
post_destination(own_chat, chat_id) == own_chat

\* _send_message_to_chat: what it gives broadcast_alert
send_message_to_chat(outcome) ==
    CASE outcome = "ok" -> "sent"
      [] outcome \in {"not_ok", "request_error"} -> "failed"
      [] outcome = "raises" -> "error"

\* broadcast_alert
broadcast_alert(enabled, min_severity, severity, repo_ok, subscribers, outcomes) ==
    IF ~enabled THEN [success |-> FALSE, reason |-> "Not enabled"]
    ELSE IF severity_below_threshold(severity, min_severity)
        THEN [success |-> FALSE, reason |-> "Severity below threshold"]
    ELSE IF ~repo_ok THEN [success |-> FALSE, reason |-> "exception"]
    ELSE IF Len(subscribers) = 0
        THEN [success |-> FALSE, reason |-> "No active subscribers"]
    ELSE LET statuses ==
                [k \in 1..Len(subscribers) |-> send_message_to_chat(outcomes[k])]
         IN [success |-> TRUE,
             total_subscribers |-> Len(subscribers),
             success_count |->
                Cardinality({k \in 1..Len(subscribers) : statuses[k] = "sent"}),
             failed_count |->
                Cardinality({k \in 1..Len(subscribers) : statuses[k] # "sent"}),
             results |-> statuses]

NoBroadcast == [success |-> FALSE, reason |-> "none"]

BcInit ==
    /\ bc_enabled \in BOOLEAN
    /\ bc_min_severity \in Severities
    /\ bc_subscribers = <<>>
    /\ bc_posts = <<>>
    /\ bc_result = NoBroadcast

BcIdle ==
    /\ bc_enabled = FALSE
    /\ bc_min_severity = 1
    /\ bc_subscribers = <<>>
    /\ bc_posts = <<>>
    /\ bc_result = NoBroadcast

\* One broadcast_alert call for an alert of some severity, with the active
\* subscribers of that moment.  The notifier keeps nothing from one call to
\* the next, so one call is followed.
BroadcastAlert ==
    /\ bc_result = NoBroadcast
    /\ \E severity \in Severities, repo_ok \in BOOLEAN, subscribers \in SubscriberLists :
        \E outcomes \in [1..Len(subscribers) -> DeliveryOutcomes] :
          LET result == broadcast_alert(bc_enabled, bc_min_severity, severity,
                                        repo_ok, subscribers, outcomes)
          IN /\ bc_subscribers' = subscribers
             /\ bc_result' = result
             /\ bc_posts' =
                  IF result.success
                    THEN [k \in 1..Len(subscribers) |->
                            post_destination(OwnChat, subscribers[k])]
                    ELSE <<>>
    /\ UNCHANGED <<bc_enabled, bc_min_severity>>
    /\ UNCHANGED notBcVars

NextBroadcast == BroadcastAlert

----------------------------------------------------------------------------
(* ReasoningClient._perform_reasoning and _acquire_rate_limit *)

\* self._rate_limit and self._rate_window (seconds)
ReasoningRateLimit == 10
ReasoningRateWindow == 60

\* Bounds of the assessor model: pairs assessed and the last clock value.
MaxPrCalls == 12
MaxPrTime == 120

NoWake == -1

\* _acquire_rate_limit: the timestamps kept by the list comprehension
prune_request_times(times, now) ==
    SelectSeq(times, LAMBDA t : now - t < ReasoningRateWindow)

window_full_above(times) == Len(times) > ReasoningRateLimit

\* _acquire_rate_limit: the test "if len(self._request_times) >= self._rate_limit"
window_full(times) == Len(times) >= ReasoningRateLimit

\* _acquire_rate_limit: wait_time
wait_time(times, now) == ReasoningRateWindow - (now - times[1])

credential_check_skipped(initialized, api_key) == "RateLimitWait"

\* _perform_reasoning: the start of the try block.  Without an API key the
\* fallback is returned before anything else; self._initialized stays False,
\* so every later call tests the key again.
credential_check(initialized, api_key) ==
    IF ~initialized /\ ~api_key THEN "Fallback" ELSE "RateLimitWait"

\* _perform_reasoning: generate_content returned, or raised into the
\* "except Exception" clause
after_model_call(raised) == IF raised THEN "Fallback" ELSE "Parsing"

\* _perform_reasoning: repair_json gave None (ValueError raised at once), or
\* an object whose fields float() and str() accept, or a value they reject
\* (an exception caught by the same clause)
ParseOutcomes == {"parse_none", "object", "bad_fields"}

after_parsing(parsed) == IF parsed = "object" THEN "Success" ELSE "Fallback"

PrInit ==
    /\ pr_pc = "NotStarted"
    /\ pr_now = 0
    /\ pr_api_key \in BOOLEAN
    /\ pr_initialized = FALSE
    /\ pr_request_times = <<>>
    /\ pr_wake = NoWake
    /\ pr_issued = <<>>
    /\ pr_event = "pending"
    /\ pr_calls = 0

PrIdle ==
    /\ pr_pc = "NotStarted"
    /\ pr_now = 0
    /\ pr_api_key = FALSE
    /\ pr_initialized = FALSE
    /\ pr_request_times = <<>>
    /\ pr_wake = NoWake
    /\ pr_issued = <<>>
    /\ pr_event = "pending"
    /\ pr_calls = 0

\* analyze_impact is called for a pair: _perform_reasoning tests the key and,
\* with a key, builds the client on the first call.
PrBegin ==
    /\ pr_pc = "NotStarted"
    /\ pr_calls < MaxPrCalls
    /\ pr_calls' = pr_calls + 1
    /\ pr_pc' = credential_check(pr_initialized, pr_api_key)
    /\ pr_initialized' = (pr_initialized \/ pr_api_key)
    /\ UNCHANGED <<pr_now, pr_api_key, pr_request_times, pr_wake, pr_issued, pr_event>>
    /\ UNCHANGED notPrVars

\* _acquire_rate_limit up to its await: the window is pruned; if it is full
\* the coroutine sleeps, otherwise the call is recorded and issued.
PrAcquire ==
    /\ pr_pc = "RateLimitWait"
    /\ pr_wake = NoWake
    /\ LET kept == prune_request_times(pr_request_times, pr_now)
       IN IF window_full(kept) /\ wait_time(kept, pr_now) > 0
            THEN /\ pr_request_times' = kept
                 /\ pr_wake' = pr_now + wait_time(kept, pr_now)
                 /\ UNCHANGED <<pr_pc, pr_issued>>
            ELSE /\ pr_request_times' = Append(kept, pr_now)
                 /\ pr_issued' = Append(pr_issued, pr_now)
                 /\ pr_pc' = "ModelCall"
                 /\ UNCHANGED pr_wake
    /\ UNCHANGED <<pr_now, pr_api_key, pr_initialized, pr_event, pr_calls>>
    /\ UNCHANGED notPrVars

\* asyncio.sleep(wait_time) returns: the call is recorded with the clock
\* value of that moment, without pruning again, and issued.
PrWake ==
    /\ pr_pc = "RateLimitWait"
    /\ pr_wake # NoWake
    /\ pr_now >= pr_wake
    /\ pr_request_times' = Append(pr_request_times, pr_now)
    /\ pr_issued' = Append(pr_issued, pr_now)
    /\ pr_wake' = NoWake
    /\ pr_pc' = "ModelCall"
    /\ UNCHANGED <<pr_now, pr_api_key, pr_initialized, pr_event, pr_calls>>
    /\ UNCHANGED notPrVars

\* generate_content returns a response or raises.
PrModelCall ==
    /\ pr_pc = "ModelCall"
    /\ \E raised \in BOOLEAN :
        /\ pr_pc' = after_model_call(raised)
        /\ pr_event' = IF raised THEN "call_raised" ELSE "called"
    /\ UNCHANGED <<pr_now, pr_api_key, pr_initialized, pr_request_times, pr_wake,
                   pr_issued, pr_calls>>
    /\ UNCHANGED notPrVars

\* The text of the response goes through repair_json and the conversions.
PrParsing ==
    /\ pr_pc = "Parsing"
    /\ \E parsed \in ParseOutcomes :
        /\ pr_pc' = after_parsing(parsed)
        /\ pr_event' = parsed
    /\ UNCHANGED <<pr_now, pr_api_key, pr_initialized, pr_request_times, pr_wake,
                   pr_issued, pr_calls>>
    /\ UNCHANGED notPrVars

\* _perform_reasoning has returned; the next pair is a new call.
PrReturn ==
    /\ pr_pc \in {"Success", "Fallback"}
    /\ pr_pc' = "NotStarted"
    /\ pr_event' = "pending"
    /\ UNCHANGED <<pr_now, pr_api_key, pr_initialized, pr_request_times, pr_wake,
                   pr_issued, pr_calls>>
    /\ UNCHANGED notPrVars

\* Time passes: during a model call, during the sleep, between two pairs.
PrTick ==
    /\ \E d \in {30, 60} :
        /\ pr_now + d <= MaxPrTime
        /\ pr_now' = pr_now + d
    /\ UNCHANGED <<pr_pc, pr_api_key, pr_initialized, pr_request_times, pr_wake,
                   pr_issued, pr_event, pr_calls>>
    /\ UNCHANGED notPrVars

NextAssessor ==
    \/ PrBegin
    \/ PrAcquire
    \/ PrWake
    \/ PrModelCall
    \/ PrParsing
    \/ PrReturn
    \/ PrTick

----------------------------------------------------------------------------
(* analyze_impacts, detect_opportunities and generate_alerts on long lists *)

\* Bounds of the fan-out model: new articles and markets of the cycle.  Both
\* exceed the slices analyze_impacts takes (5 articles, 10 markets).
MaxPlNews == 6
MaxPlMarkets == 11

\* Articles and markets are numbered; the markets with a price are all of
\* them or the odd ones.
PlStates ==
    {[InitialState EXCEPT
        !.news_articles = [i \in 1..n |-> i],
        !.markets = [j \in 1..m |-> j],
        !.market_data = [j \in 1..m |-> IF priced = "odd" /\ j % 2 = 0
                                           THEN NoData ELSE 50]] :
        n \in 0..MaxPlNews, m \in 0..MaxPlMarkets, priced \in {"all", "odd"}}

\* An outcome for every item of a loop: the values of a short sequence,
\* repeated.
Repeating(len, values) == [k \in 1..len |-> values[((k - 1) % Len(values)) + 1]]

PlInit ==
    /\ pl_pc = "analyze_impacts"
    /\ pl_state \in PlStates
    /\ pl_pairs = 0

PlIdle ==
    /\ pl_pc = "analyze_impacts"
    /\ pl_state = InitialState
    /\ pl_pairs = 0

\* Node analyze_impacts
PlAnalyze ==
    /\ pl_pc = "analyze_impacts"
    /\ LET pairs == AssessedPairs(pl_state)
       IN /\ pl_pairs' = Len(pairs)
          /\ \E outcomes \in [1..3 -> Assessments \cup {AssessRaise}] :
                pl_state' = [pl_state EXCEPT !.market_impacts =
                                analyze_pairs(pairs, Repeating(Len(pairs), outcomes), 1)]
    /\ pl_pc' = "detect_opportunities"
    /\ UNCHANGED notPlVars

\* Node detect_opportunities
PlDetect ==
    /\ pl_pc = "detect_opportunities"
    /\ \/ pl_state' = detect_opportunities_failed(pl_state)
       \/ pl_state' = [pl_state EXCEPT !.opportunities =
                          detect_opportunities(pl_state.market_impacts,
                                               pl_state.market_data,
                                               confidence_threshold, min_profit_margin)]
    /\ pl_pc' = "generate_alerts"
    /\ UNCHANGED pl_pairs
    /\ UNCHANGED notPlVars

\* Node generate_alerts
PlAlerts ==
    /\ pl_pc = "generate_alerts"
    /\ \E outcomes \in [1..2 -> BOOLEAN] :
        LET created == Repeating(Len(pl_state.opportunities), outcomes)
        IN pl_state' = generate_alerts_done(pl_state, build_alerts(pl_state, created, 1))
    /\ pl_pc' = "cycle_returned"
    /\ UNCHANGED pl_pairs
    /\ UNCHANGED notPlVars

NextFanOut ==
    \/ PlAnalyze
    \/ PlDetect
    \/ PlAlerts

----------------------------------------------------------------------------
(* Specifications *)

InitDetector ==
    /\ DetInit /\ LimIdle /\ StoreIdle /\ HbIdle /\ CycIdle
    /\ RetryIdle /\ ReasonIdle /\ MetIdle
    /\ LockIdle /\ RepairIdle /\ BcIdle /\ PrIdle /\ PlIdle

SpecDetector == InitDetector /\ [][NextDetector]_vars

InitLimiter ==
    /\ LimInit /\ DetIdle /\ StoreIdle /\ HbIdle /\ CycIdle
    /\ RetryIdle /\ ReasonIdle /\ MetIdle
    /\ LockIdle /\ RepairIdle /\ BcIdle /\ PrIdle /\ PlIdle

SpecLimiter == InitLimiter /\ [][NextLimiter]_vars

InitStore ==
    /\ StoreInit /\ DetIdle /\ LimIdle /\ HbIdle /\ CycIdle
    /\ RetryIdle /\ ReasonIdle /\ MetIdle
    /\ LockIdle /\ RepairIdle /\ BcIdle /\ PrIdle /\ PlIdle

SpecStore == InitStore /\ [][NextStore]_vars

InitHeartbeat ==
    /\ HbInit /\ DetIdle /\ LimIdle /\ StoreIdle /\ CycIdle
    /\ RetryIdle /\ ReasonIdle /\ MetIdle
    /\ LockIdle /\ RepairIdle /\ BcIdle /\ PrIdle /\ PlIdle

SpecHeartbeat == InitHeartbeat /\ [][NextHeartbeat]_vars

\* The orchestrator owns a detector built from the configured thresholds.
InitCycle ==
    /\ CycInit
    /\ confidence_threshold \in ThresholdValues
    \* a margin that the fallback assessment reaches against a price of 0.50
    /\ min_profit_margin = 4
    /\ det_impacts = <<>>
    /\ det_market_data = [mk \in MarketIds |-> NoData]
    /\ det_result = <<>>
    /\ det_calls = 0
    /\ det_now = 0
    /\ det_previous = NoPrevious
    /\ LimIdle /\ StoreIdle /\ HbIdle
    /\ RetryIdle /\ ReasonIdle /\ MetIdle
    /\ LockIdle /\ RepairIdle /\ BcIdle
    \* settings.gemini_api_key is set or not; the assessor is otherwise at rest
    /\ pr_api_key \in BOOLEAN
    /\ pr_pc = "NotStarted"
    /\ pr_now = 0
    /\ pr_initialized = FALSE
    /\ pr_request_times = <<>>
    /\ pr_wake = NoWake
    /\ pr_issued = <<>>
    /\ pr_event = "pending"
    /\ pr_calls = 0
    /\ PlIdle

\* The steps run_continuous takes by itself: the event loop runs its single
\* task, every awaited stage returns or raises, and asyncio.sleep returns.
CycleSteps ==
    \/ LoopBegin
    \/ RunCycleStart
    \/ SearchNews
    \/ FetchMarkets
    \/ AnalyzeImpacts
    \/ DetectNode
    \/ GenerateAlerts
    \/ AfterCycle
    \/ SleepDone

\* The loop of run_continuous does not depend on the detector's settings:
\* the fair specification fixes them to the defaults, with a credential.
InitCycleFair ==
    /\ InitCycle
    /\ confidence_threshold = 70
    /\ pr_api_key

SpecCycleFair == InitCycleFair /\ [][NextCycle]_vars /\ WF_vars(CycleSteps)

SpecCycle == InitCycle /\ [][NextCycle]_vars

InitRetry ==
    /\ RetryInit /\ DetIdle /\ LimIdle /\ StoreIdle /\ HbIdle /\ CycIdle
    /\ ReasonIdle /\ MetIdle
    /\ LockIdle /\ RepairIdle /\ BcIdle /\ PrIdle /\ PlIdle

SpecRetry == InitRetry /\ [][NextRetry]_vars

InitReasoning ==
    /\ ReasonInit /\ DetIdle /\ LimIdle /\ StoreIdle /\ HbIdle /\ CycIdle
    /\ RetryIdle /\ MetIdle
    /\ LockIdle /\ RepairIdle /\ BcIdle /\ PrIdle /\ PlIdle

SpecReasoning == InitReasoning /\ [][NextReasoning]_vars

InitMetrics ==
    /\ MetInit /\ DetIdle /\ LimIdle /\ StoreIdle /\ HbIdle /\ CycIdle
    /\ RetryIdle /\ ReasonIdle
    /\ LockIdle /\ RepairIdle /\ BcIdle /\ PrIdle /\ PlIdle

SpecMetrics == InitMetrics /\ [][NextMetrics]_vars

InitLocked ==
    /\ LockInit /\ DetIdle /\ LimIdle /\ StoreIdle /\ HbIdle /\ CycIdle
    /\ RetryIdle /\ ReasonIdle /\ MetIdle
    /\ RepairIdle /\ BcIdle /\ PrIdle /\ PlIdle

SpecLocked == InitLocked /\ [][NextLocked]_vars

------------------------------------------------------------------InitRepair ==
    /\ RepairInit /\ DetIdle /\ LimIdle /\ StoreIdle /\ HbIdle /\ CycIdle
    /\ RetryIdle /\ ReasonIdle /\ MetIdle
    /\ LockIdle /\ BcIdle /\ PrIdle /\ PlIdle

SpecRepair == InitRepair /\ [][NextRepair]_vars

InitBroadcast ==
    /\ BcInit /\ DetIdle /\ LimIdle /\ StoreIdle /\ HbIdle /\ CycIdle
    /\ RetryIdle /\ ReasonIdle /\ MetIdle
    /\ LockIdle /\ RepairIdle /\ PrIdle /\ PlIdle

SpecBroadcast == InitBroadcast /\ [][NextBroadcast]_vars

InitAssessor ==
    /\ PrInit /\ DetIdle /\ LimIdle /\ StoreIdle /\ HbIdle /\ CycIdle
    /\ RetryIdle /\ ReasonIdle /\ MetIdle
    /\ LockIdle /\ RepairIdle /\ BcIdle /\ PlIdle

SpecAssessor == InitAssessor /\ [][NextAssessor]_vars

InitFanOut ==
    /\ PlInit /\ DetIdle /\ LimIdle /\ StoreIdle /\ HbIdle /\ CycIdle
    /\ RetryIdle /\ ReasonIdle /\ MetIdle
    /\ LockIdle /\ RepairIdle /\ BcIdle /\ PrIdle

SpecFanOut == InitFanOut /\ [][NextFanOut]_vars

----------
(* Properties of ArbitrageDetector *)

\* The impacts of the pending call that pass the three skip tests.
DetCandidates ==
    {i \in 1..Len(det_impacts) :
        /\ is_significant(det_impacts[i])
        /\ det_impacts[i].confidence >= confidence_threshold
        /\ det_market_data[det_impacts[i].market_id] # NoData}

DerivedFrom(i) == {k \in 1..Len(det_result) : det_result[k].impact_id = det_impacts[i].id}

\* C1: every opportunity returned by detect_opportunities has
\* potential_profit >= min_profit_margin, where potential_profit is
\* |expected_price - current yes_price| * confidence of its assessment.
C1_AdmissionGate ==
    det_calls > 0 =>
        \A k \in 1..Len(det_result) :
            /\ det_result[k].potential_profit >= min_profit_margin * 100
            /\ \E i \in 1..Len(det_impacts) :
                /\ det_result[k].impact_id = det_impacts[i].id
                /\ det_result[k].potential_profit =
                     Abs(det_impacts[i].expected_price
                         - det_market_data[det_impacts[i].market_id])
                     * det_impacts[i].confidence

\* A call has returned an opportunity and has also rejected a candidate whose
\* profit is below the margin but at least half of it.
C1_Witness ==
    /\ det_calls > 0
    /\ Len(det_result) > 0
    /\ \E i \in DetCandidates :
        /\ DerivedFrom(i) = {}
        /\ 2 * Abs(det_impacts[i].expected_price
                   - det_market_data[det_impacts[i].market_id])
             * det_impacts[i].confidence >= min_profit_margin * 100

\* C2: an assessment with relevance <= 0.1 yields no opportunity, whatever its
\* confidence, expected price and the current price.
C2_LowRelevanceSkipped ==
    det_calls > 0 =>
        \A i \in 1..Len(det_impacts) :
            det_impacts[i].relevance <= 10 => DerivedFrom(i) = {}

\* A call was made on an assessment of relevance exactly 0.1 that clears the
\* confidence threshold, has a price and clears the margin.
C2_Witness ==
    /\ det_calls > 0
    /\ \E i \in 1..Len(det_impacts) :
        /\ det_impacts[i].relevance = 10
        /\ det_impacts[i].confidence >= confidence_threshold
        /\ det_market_data[det_impacts[i].market_id] # NoData
        /\ Abs(det_impacts[i].expected_price
               - det_market_data[det_impacts[i].market_id])
             * det_impacts[i].confidence >= min_profit_margin * 100
        /\ DerivedFrom(i) = {}

\* The scenario of C4: one assessment {relevance 0.8, confidence 0.75,
\* expected_price 0.70} on a market priced 0.55, thresholds 0.7 and 0.05.
C4_Scenario ==
    /\ det_calls > 0
    /\ confidence_threshold = 70
    /\ min_profit_margin = 5
    /\ Len(det_impacts) = 1
    /\ det_impacts[1].relevance = 80
    /\ det_impacts[1].confidence = 75
    /\ det_impacts[1].expected_price = 70
    /\ det_market_data[det_impacts[1].market_id] = 55

C23_Deterministic ==
    det_previous.made =>
        /\ det_result = det_previous.result
        /\ \A j, k \in 1..Len(det_result) :
              j < k =>
                \E a, b \in 1..Len(det_impacts) :
                    /\ a < b
                    /\ det_impacts[a].id = det_result[j].impact_id
                    /\ det_impacts[b].id = det_result[k].impact_id

\* C29: an assessment of relevance 0.3, below the configured
\* relevance_threshold of 0.5, is not significant, whatever its confidence.
C29_LowRelevanceNotSignificant ==
    \A i \in 1..Len(det_impacts) :
        det_impacts[i].relevance = 30 => ~is_significant(det_impacts[i])

\* The opportunity _calculate_opportunity builds for candidate i of the
\* pending call, and its potential profit in ten-thousandths.
CalculatedFor(i) ==
    calculate_opportunity(det_impacts[i], det_market_data[det_impacts[i].market_id],
                          min_profit_margin)

ProfitOf(i) ==
    Abs(det_impacts[i].expected_price - det_market_data[det_impacts[i].market_id])
    * det_impacts[i].confidence

\* The label the classification rule gives candidate i.
ActionLabel(i) ==
    IF ProfitOf(i) >= min_profit_margin * 100 /\ det_impacts[i].confidence >= 80
      THEN "investigate"
    ELSE IF 2 * ProfitOf(i) >= min_profit_margin * 100 THEN "monitor"
    ELSE "watch"

\* C31: for every assessment that reaches _calculate_opportunity the action
\* is "investigate" exactly when potential_profit >= min_profit_margin and
\* confidence >= 0.8, otherwise "monitor" exactly when potential_profit >=
\* min_profit_margin / 2, otherwise "watch"; a returned opportunity carries
\* that label.
C31_ActionLabels ==
    det_calls > 0 =>
        \A i \in DetCandidates :
            /\ CalculatedFor(i).action = ActionLabel(i)
            /\ \A k \in DerivedFrom(i) : det_result[k].action = ActionLabel(i)

C31_Witness ==
    /\ det_calls > 0
    /\ \E i, j \in DetCandidates :
        /\ CalculatedFor(i).action = "watch"
        /\ CalculatedFor(j).action = "monitor"
        /\ det_impacts[j].confidence < 80
        /\ ProfitOf(j) >= min_profit_margin * 100
        /\ DerivedFrom(j) # {}

\* C32: no opportunity returned by detect_opportunities carries the action
\* "watch": every returned opportunity is labelled "investigate" or "monitor".
C32_NoWatchReturned ==
    det_calls > 0 =>
        \A k \in 1..Len(det_result) : det_result[k].action \in {"investigate", "monitor"}

C32_Witness ==
    /\ det_calls > 0
    /\ Len(det_result) = 1
    /\ det_result[1].action = "investigate"
    /\ \E i \in DetCandidates :
        /\ CalculatedFor(i).action = "watch"
        /\ DerivedFrom(i) = {}

----------------------------------------------------------------------------
(* Properties of the rate limiter *)

\* C5: in every rolling 1-second window at most rate_limit requests are
\* issued by _request, under every interleaving of the callers.
C5_RateWindow ==
    \A i \in 1..Len(issued) :
        Cardinality({k \in 1..Len(issued) :
                        issued[i] <= issued[k] /\ issued[k] < issued[i] + TicksPerSecond})
            <= RateLimit

----------------------------------------------------------------------------
(* Properties of the shared-state stores *)

\* C6: after any sequence of add calls a store with capacity max_size >= 0
\* holds at most max_size entries, and they are exactly the most recently
\* added ones in insertion order.
C6_BoundedFifo ==
    \A s \in Stores :
        /\ Len(st_items[s]) <= st_max_size[s]
        /\ LET n == Min(st_max_size[s], Len(st_history[s]))
           IN st_items[s] = SubSeq(st_history[s], Len(st_history[s]) - n + 1,
                                   Len(st_history[s]))

\* C21: for every n >= 0 and every store content, get_recent(n) returns
\* exactly min(n, count) entries: the n most recently added, newest first.
C21_GetRecentNewestFirst ==
    st_recent.store # "none" =>
        LET n == Min(st_recent.limit, Len(st_recent.items))
        IN /\ Len(st_recent.result) = n
           /\ \A i \in 1..n :
                st_recent.result[i] =
                    st_recent.items[Len(st_recent.items) + 1 - i]

----------------------------------------------------------------------------
(* Properties of the heartbeat *)

\* The heartbeat file seen by the last query was older than the 30 second
\* window.
QuerySawStaleHeartbeat ==
    /\ hb_query.op # "none"
    /\ hb_query.file.kind = "heartbeat"
    /\ hb_query.now - hb_query.file.last_heartbeat > StaleTicks

\* C7: when the heartbeat in the file is older than 30 seconds, get_status and
\* is_healthy report the worker as not running, whatever the reader's own
\* worker_running flag.
C7_StaleMeansNotRunning ==
    QuerySawStaleHeartbeat =>
        /\ hb_query.worker_running = FALSE
        /\ hb_query.healthy = FALSE

----------------------------------------------------------------------------
(* Properties of the orchestrator *)

Stages == {"search_news", "fetch_markets", "analyze_impacts",
           "detect_opportunities", "generate_alerts"}

\* The detect_opportunities node of the cycle in progress has run.
Detected == cyc_pc \in {"generate_alerts", "cycle_returned"}

BelowThreshold(impact) == impact.confidence < confidence_threshold

\* C3: an assessment whose confidence is strictly below confidence_threshold
\* yields no opportunity, whatever the price discrepancy; a cycle whose only
\* assessments are below the threshold ends with no opportunities and no
\* alerts.
C3_LowConfidenceSkipped ==
    /\ Detected =>
         \A i \in 1..Len(state.market_impacts) :
            BelowThreshold(state.market_impacts[i]) =>
                \A k \in 1..Len(state.opportunities) :
                    state.opportunities[k].impact_id # state.market_impacts[i].id
    /\ (cyc_pc = "cycle_returned"
         /\ \A i \in 1..Len(state.market_impacts) :
                BelowThreshold(state.market_impacts[i])) =>
         /\ state.opportunities = <<>>
         /\ state.alerts = <<>>
         /\ cycle_result.value.opportunities = <<>>
         /\ cycle_result.value.alerts = <<>>

\* A cycle has ended whose only assessment is significant, priced and clears
\* the margin, but is below the confidence threshold.
C3_Witness ==
    /\ cyc_pc = "cycle_returned"
    /\ Len(state.market_impacts) = 1
    /\ BelowThreshold(state.market_impacts[1])
    /\ state.market_data[state.market_impacts[1].market_id] # NoData
    /\ Abs(state.market_impacts[1].expected_price
           - state.market_data[state.market_impacts[1].market_id])
         * state.market_impacts[1].confidence >= min_profit_margin * 100
    /\ "detect_opportunities" \notin cyc_raised
    /\ cycle_result.value.cycle_end_time

\* C8: a cycle in which the news-fetch stage raises still completes: run_cycle
\* returns a record with cycle_end_time set, an error entry for the news
\* failure, and empty news_articles, opportunities and alerts.
C8_NewsFailureCompletes ==
    (cyc_pc = "cycle_returned" /\ "search_news" \in cyc_raised) =>
        /\ cycle_result.returned
        /\ cycle_result.value.cycle_end_time
        /\ "News search failed" \in Range(cycle_result.value.errors)
        /\ cycle_result.value.news_articles = <<>>
        /\ cycle_result.value.opportunities = <<>>
        /\ cycle_result.value.alerts = <<>>

\* run_cycle has returned from a cycle whose news search raised while the
\* market stage delivered a priced market.
C8_Witness ==
    /\ cyc_pc = "cycle_returned"
    /\ "search_news" \in cyc_raised
    /\ cycle_result.returned
    /\ cycle_result.value.markets # <<>>
    /\ \E mk \in MarketIds : cycle_result.value.market_data[mk] # NoData

\* C9: an exception escaping one cycle never ends run_continuous: the loop
\* goes on to its sleep and from there to the next cycle; it stops only on an
\* external interrupt or when a configured max_cycles is reached.
C9_LoopSurvivesCycleFailure ==
    /\ [][(cyc_pc = "cycle_escaped" /\ cyc_pc' # cyc_pc) =>
            \/ cyc_pc' = "sleeping"
            \/ cyc_pc' = "stopped" /\ stop_reason' \in {"interrupt", "max_cycles"}]_vars
    /\ [][(cyc_pc = "sleeping" /\ cyc_pc' # cyc_pc) =>
            \/ cyc_pc' = "loop_top"
            \/ cyc_pc' = "stopped" /\ stop_reason' = "interrupt"]_vars
    /\ [](cyc_pc = "stopped" =>
            \/ stop_reason = "interrupt"
            \/ /\ stop_reason = "max_cycles"
               /\ max_cycles \notin {NoData, 0}
               /\ cycle_count >= max_cycles)

\* The second cycle has begun after an exception escaped the first one.
C9_Witness ==
    /\ cyc_pc = "run_cycle"
    /\ cycle_count = 2
    /\ "run_cycle" \in cyc_raised

\* C10: for each of the five stages, an exception raised inside the stage is
\* caught by that stage and adds an entry to the cycle's errors list.
C10_StageErrorsRecorded ==
    cyc_pc \in Stages \cup {"cycle_returned"} =>
        /\ "export_json" \notin cyc_raised
        /\ Len(state.errors) >= Cardinality(cyc_raised \cap Stages)

\* C37: every pair handed to the assessor contributes exactly one assessment
\* to the impact list of the cycle, a totally failed pair being represented
\* by its neutral assessment: when analyze_impacts has run, market_impacts
\* has one entry per assessed pair, in loop order (no call of the assessor
\* having raised).
C37_OneAssessmentPerPair ==
    (cyc_pc = "detect_opportunities" /\ "analyze_impacts" \notin cyc_raised) =>
        /\ Len(state.market_impacts) = Len(AssessedPairs(state))
        /\ \A k \in 1..Len(state.market_impacts) :
              state.market_impacts[k].id = AssessedPairs(state)[k]

\* C38: with no model credential every assessment carries the fallback
\* confidence 0.4 (or is neutral), so with a confidence_threshold above 0.4
\* no cycle yields an opportunity or an alert.
C38_NoCredentialNoOpportunity ==
    (~pr_api_key /\ confidence_threshold > 40) =>
        /\ state.opportunities = <<>>
        /\ state.alerts = <<>>
        /\ published = {}
        /\ cycle_result.returned =>
              /\ cycle_result.value.opportunities = <<>>
              /\ cycle_result.value.alerts = <<>>

\* A cycle without credential has returned: it assessed a pair by the fallback,
\* the market had a price and the profit reached the margin, and the
\* threshold kept the assessment out.
C38_Witness ==
    /\ ~pr_api_key
    /\ confidence_threshold > 40
    /\ cyc_pc = "cycle_returned"
    /\ cycle_result.returned
    /\ \E k \in 1..Len(state.market_impacts) :
        LET impact == state.market_impacts[k]
        IN /\ impact.confidence = 40
           /\ state.market_data[impact.market_id] # NoData
           /\ is_profitable(calculate_opportunity(impact,
                                state.market_data[impact.market_id],
                                min_profit_margin), min_profit_margin)

\* The articles handed to the assessor by analyze_impacts in this cycle.
AssessedNews ==
    {AssessedPairs(state)[k][1] : k \in 1..Len(AssessedPairs(state))}

\* C40: no validated new article is silently lost: when analyze_impacts has
\* run, every article search_news put in the seen-set in this cycle has been
\* assessed, or is not in the seen-set and so stays eligible for a later
\* cycle; in particular when the market fetch of the cycle failed.
C40_NoArticleLost ==
    cyc_pc = "detect_opportunities" =>
        \A url \in Range(state.news_articles) :
            url \in AssessedNews \/ url \notin news_cache

\* C33: with max_cycles = N >= 1 run_continuous runs exactly N cycles and
\* returns after the N-th without sleeping; with no maximum it never stops
\* by itself, and it sleeps between every two consecutive cycles.  An
\* external interrupt is the only other way the loop ends.
C33_MaxCyclesEndsLoop ==
    /\ [](max_cycles >= 1 =>
            /\ cycle_count <= max_cycles
            /\ cyc_pc = "sleeping" => cycle_count < max_cycles
            /\ (cyc_pc = "stopped" /\ stop_reason # "interrupt") =>
                    (stop_reason = "max_cycles" /\ cycle_count = max_cycles))
    /\ [][(/\ max_cycles >= 1
           /\ cyc_pc \in {"cycle_returned", "cycle_escaped"}
           /\ cycle_count = max_cycles
           /\ cyc_pc' # cyc_pc) => cyc_pc' = "stopped"]_vars
    /\ [](max_cycles = NoData /\ cyc_pc = "stopped" => stop_reason = "interrupt")
    /\ [][(/\ max_cycles = NoData
           /\ cyc_pc \in {"cycle_returned", "cycle_escaped"}
           /\ cyc_pc' # cyc_pc) =>
              \/ cyc_pc' = "sleeping"
              \/ cyc_pc' = "stopped" /\ stop_reason' = "interrupt"]_vars
    /\ [][(cycle_count' > cycle_count /\ cycle_count >= 1) =>
              (cyc_pc = "loop_top" /\ cyc_pc' = "run_cycle")]_vars
    /\ [][(cyc_pc' = "loop_top" /\ cyc_pc # "loop_top") => cyc_pc = "sleeping"]_vars
    /\ (max_cycles >= 1) => <>(cyc_pc = "stopped")

\* The loop has returned by itself after its second cycle with max_cycles = 2.
C33_Witness ==
    /\ max_cycles = 2
    /\ cycle_count = 2
    /\ cyc_pc = "stopped"
    /\ stop_reason = "max_cycles"

----------------------------------------------------------------------------
(* Properties of the assessor *)

\* The model calls issued in the 60 seconds that end with call k, that call
\* included; a call made exactly 60 seconds earlier has left the window, as
\* in the pruning test of _acquire_rate_limit.
IssuedInWindow(k) ==
    {j \in 1..Len(pr_issued) :
        /\ pr_issued[j] <= pr_issued[k]
        /\ pr_issued[k] - pr_issued[j] < ReasoningRateWindow}

\* C34: over any sequence of analyze_impact calls on one client at most 10
\* model calls are issued within any rolling 60-second window, and a call
\* that finds the window full sleeps and is issued only once the oldest
\* recorded call is 60 seconds old.
C34_ModelCallWindow ==
    /\ [](\A k \in 1..Len(pr_issued) : Cardinality(IssuedInWindow(k)) <= 10)
    /\ [][(/\ pr_pc = "RateLimitWait"
           /\ pr_wake = NoWake
           /\ Len(prune_request_times(pr_request_times, pr_now)) >= 10
           /\ pr_request_times' # pr_request_times \/ pr_wake' # pr_wake) =>
              (pr_wake' # NoWake /\ pr_issued' = pr_issued)]_vars
    /\ [][(pr_wake # NoWake /\ pr_issued' # pr_issued) =>
              pr_now' - pr_request_times[1] >= 60]_vars

\* An eleventh call has been issued after sleeping, ten being in its window.
C34_Witness ==
    /\ Len(pr_issued) = 11
    /\ pr_issued[1] = 0
    /\ pr_issued[11] = 60
    /\ Cardinality(IssuedInWindow(11)) = 10

AssessorMoves ==
    {<<"NotStarted", "RateLimitWait">>, <<"RateLimitWait", "ModelCall">>,
     <<"ModelCall", "Parsing">>, <<"Parsing", "Success">>,
     <<"NotStarted", "Fallback">>, <<"ModelCall", "Fallback">>,
     <<"Parsing", "Fallback">>,
     <<"Success", "NotStarted">>, <<"Fallback", "NotStarted">>}

----------------------------------------------------------------------------
(* Properties of the sizes of a cycle's lists *)

\* C39: at most 5 x 10 = 50 pairs are handed to the assessor in a cycle, and
\* the lists of the cycle shrink from stage to stage: alerts are no more than
\* opportunities, opportunities no more than market_impacts, market_impacts
\* no more than the pairs assessed.
C39_FanOutBounded ==
    /\ pl_pairs <= 50
    /\ pl_pc # "analyze_impacts" =>
          /\ Len(pl_state.market_impacts) <= pl_pairs
          /\ Len(pl_state.opportunities) <= Len(pl_state.market_impacts)
          /\ Len(pl_state.alerts) <= Len(pl_state.opportunities)

\* A cycle with more than 5 new articles and more than 10 markets has run:
\* 50 pairs were assessed, and each list is shorter than the one before.
C39_Witness ==
    /\ pl_pc = "cycle_returned"
    /\ Len(pl_state.news_articles) > 5
    /\ Len(pl_state.markets) > 10
    /\ pl_pairs = 50
    /\ Len(pl_state.market_impacts) < pl_pairs
    /\ Len(pl_state.opportunities) < Len(pl_state.market_impacts)
    /\ Len(pl_state.alerts) < Len(pl_state.opportunities)
    /\ Len(pl_state.alerts) > 0

----------------------------------------------------------------------------
(* Properties of the heartbeat seen from the reader process *)

\* C15: the current_cycle values returned by successive get_status calls in
\* the reader (api) process never decrease while the worker process holds its
\* running flag and the heartbeat file is in place.
C15_CycleMonotonic ==
    [][(/\ hb_query.op = "get_status" /\ hb_query.proc = "api"
        /\ hb_query'.op = "get_status" /\ hb_query'.proc = "api"
        /\ hb_query.worker_flag /\ hb_query'.worker_flag
        /\ hb_query.file.kind = "heartbeat"
        /\ hb_query'.file.kind = "heartbeat")
       => hb_query'.current_cycle >= hb_query.current_cycle]_vars

\* C16: after every set_worker_running(True), set_worker_running(False) and
\* increment_cycle call of the worker process the heartbeat file exists and
\* holds the worker's current flag, its current cycle and a fresh timestamp.
C16_HeartbeatWrittenOnEveryChange ==
    [][((\E running \in BOOLEAN : SetWorkerRunning(running)) \/ IncrementCycle)
       => /\ hb_file'.kind = "heartbeat"
          /\ hb_file'.worker_running = worker_running'["worker"]
          /\ hb_file'.current_cycle = current_cycle'["worker"]
          /\ hb_file'.last_heartbeat = hb_now']_vars

\* C17: a query that finds the heartbeat file absent, empty or partially
\* written answers from the reader's own flag and counter.
C17_UnreadableFallsBack ==
    (hb_query.op # "none" /\ hb_query.file.kind \in {"absent", "torn"}) =>
        /\ hb_query.worker_running = hb_query.own_flag
        /\ hb_query.op = "get_status" =>
                hb_query.current_cycle = hb_query.own_cycle
        /\ hb_query.op = "is_healthy" =>
                hb_query.healthy = (hb_query.own_flag /\ hb_query.own_web)

C17_Witness ==
    /\ hb_query.op = "get_status"
    /\ hb_query.file.kind = "torn"
    /\ hb_query.own_flag
    /\ hb_query.worker_running
    /\ hb_query.current_cycle = 1

\* C36: the reader treats the heartbeat as stale exactly when it is more
\* than 30 seconds old; one that is exactly 30 seconds old is still live.
\* Seen in a query of the api process, whose own flag is off, on a file that
\* says the worker runs: the worker is reported running exactly when the
\* heartbeat is at most 30 seconds old.
C36_StaleAfterThirtySeconds ==
    (/\ hb_query.op = "get_status"
     /\ hb_query.proc = "api"
     /\ ~hb_query.own_flag
     /\ hb_query.file.kind = "heartbeat"
     /\ hb_query.file.worker_running)
    => (hb_query.worker_running <=>
            hb_query.now - hb_query.file.last_heartbeat <= StaleTicks)

\* C18: while the worker process holds its running flag and its last write of
\* the heartbeat succeeded, every query in the reader (api) process reports
\* the worker as running.
C18_LiveWorkerReportedRunning ==
    (/\ hb_query.op # "none"
     /\ hb_query.proc = "api"
     /\ hb_query.worker_flag
     /\ hb_query.file.kind = "heartbeat"
     /\ hb_query.file.worker_running)
    => hb_query.worker_running

----------------------------------------------------------------------------
(* Properties of the news cache *)

\* C12: a news URL is carried into the assessment stage in at most one cycle
\* of a process and at most once in that cycle, and the seen-set (news_cache)
\* never loses a URL: every URL search_news puts into news_articles was not in
\* the cache before, is in it afterwards, and appears once.
C12_NewsCarriedOnce ==
    [][/\ news_cache \subseteq news_cache'
       /\ cyc_pc = "search_news" =>
            LET carried == state'.news_articles
            IN /\ \A i \in 1..Len(carried) :
                    /\ carried[i] \notin news_cache
                    /\ carried[i] \in news_cache'
               /\ \A i, j \in 1..Len(carried) :
                    carried[i] = carried[j] => i = j]_vars

\* The second cycle found both URLs known by then and carried only the one
\* the first cycle had not seen.
C12_Witness ==
    /\ cycle_count = 2
    /\ cyc_pc = "fetch_markets"
    /\ news_cache = {"u1", "u2"}
    /\ state.news_articles = <<"u2">>

----------------------------------------------------------------------------
(* Properties of the reasoning client *)

\* C11: analyze_impact returns an assessment whatever the credential lookup,
\* the rate-limit wait, the model call and the parsing give; it never raises,
\* and the assessment of a failed analysis is neutral.
C11_NeverRaises ==
    ra_calls > 0 =>
        /\ ra_result.kind = "impact"
        /\ ra_result.path = "neutral" =>
              /\ ra_result.relevance = 0
              /\ ra_result.confidence = 0
              /\ ra_result.direction = "neutral"

\* C20: when the parsed object has relevance, confidence, expected_magnitude
\* or expected_price outside [0,1], the assessment returned is the keyword
\* heuristic one (confidence 0.4, magnitude 0.1).
C20_OutOfRangeTakesFallback ==
    (/\ ra_calls > 0
     /\ ra_input.api_key /\ ra_input.call = "ok" /\ ra_input.parsed = "object"
     /\ ra_input.direction.name \in PriceDirections
     /\ MinReasoningLen <= ra_input.reasoning_len
     /\ ra_input.reasoning_len <= MaxReasoningLen
     /\ \/ ~InUnit(ra_input.relevance)
        \/ ~InUnit(ra_input.confidence)
        \/ ~InUnit(ra_input.expected_magnitude)
        \/ ~InUnit(ra_input.expected_price))
    => /\ ra_result.kind = "impact"
       /\ ra_result.path = "fallback"
       /\ ra_result.confidence = 40
       /\ ra_result.expected_magnitude = 10

----------------------------------------------------------------------------
(* Properties of the client operations *)

\* C13: a request answered with a non-2xx status is attempted exactly once
\* and the error propagates to the caller, for every client operation.
C13_HttpErrorAttemptedOnce ==
    (rt_pc = "done" /\ "http_error" \in Range(rt_log)) =>
        /\ Len(rt_log) = 1
        /\ rt_result = "PolymarketClientError"

\* C14: a call that fails with a network-level error has been attempted 3
\* times before the error surfaces, and no call is attempted more than 3
\* times.
C14_NetworkErrorRetried ==
    /\ Len(rt_log) <= MaxAttempts
    /\ (rt_pc = "done" /\ rt_log[Len(rt_log)] = "network_error") =>
            Len(rt_log) = MaxAttempts

----------------------------------------------------------------------------
(* Properties of the metrics collector *)

\* C19: every cycle that has ended has exactly one record in the shared
\* metrics store and exactly one handed to the persistence collaborator.
C19_CycleRecordHandedOver ==
    \A k \in 1..Len(mc_history) :
        /\ Cardinality({i \in 1..Len(mc_store) :
                            mc_store[i] = mc_history[k].cycle_id}) = 1
        /\ Cardinality({i \in 1..Len(mc_persisted) :
                            mc_persisted[i] = mc_history[k].cycle_id}) = 1

----------------------------------------------------------------------------
(* Properties of a store used by several threads *)

\* C22: under any interleaving of add, get_recent, get_all, count and clear
\* calls from several threads, every add takes effect exactly once (when no
\* call is in progress the list is what the completed calls, taken one after
\* the other, leave) and every read returns a snapshot of the list as it
\* stood between two mutations.
C22_LockedStoreLinearizable ==
    /\ (\A t \in Threads : lk_pc[t] \in {"idle", "waiting"}) =>
            lk_items = lk_abstract
    /\ lk_read.op # "none" =>
            lk_read.value = read_value(lk_read.op, lk_read.committed, lk_read.limit)

\* A thread has read the full store after an eviction while the other thread
\* waits at the lock with an add.
C22_Witness ==
    /\ lk_max_size = 2
    /\ lk_read.op = "get_all" /\ lk_read.thread = "t2"
    /\ lk_read.value = <<2, 3>>
    /\ lk_pc["t2"] = "release"
    /\ lk_pc["t1"] = "waiting" /\ lk_local["t1"].op = "clear"

\* The order of the pipeline stages within one cycle.
StageOrder ==
    <<"search_news", "fetch_markets", "analyze_impacts", "detect_opportunities",
      "generate_alerts">>

StagePosition(node) == CHOOSE k \in 1..Len(StageOrder) : StageOrder[k] = node

\* C24: within every cycle the five stages run exactly once each, in the
\* order search_news, fetch_markets, analyze_impacts, detect_opportunities,
\* generate_alerts; a stage is entered only when every stage before it has
\* finished, whether or not an earlier stage caught a failure.
C24_StagesInOrder ==
    /\ cyc_pc \in Stages =>
            cyc_trace = SubSeq(StageOrder, 1, StagePosition(cyc_pc) - 1)
    /\ cyc_pc = "cycle_returned" => cyc_trace = StageOrder

C24_Witness ==
    /\ cyc_pc = "cycle_returned"
    /\ cyc_trace = StageOrder
    /\ {"search_news", "fetch_markets", "detect_opportunities"} \subseteq cyc_raised
    /\ cycle_count = 2

\* C28: in a first cycle where the news search returns one article, which
\* carries no published date, one market is listed with a price snapshot of
\* 0.5 and no stage fails, the result of run_cycle holds that article, one
\* impact, at least one opportunity and at least one alert, and has
\* cycle_end_time set.
C28_FullCycleScenario ==
    (/\ cyc_pc = "cycle_returned"
     /\ cycle_count = 1
     /\ cyc_raised = {}
     /\ cyc_searched = [returned |-> 1, filtered |-> 1]
     /\ cycle_result.value.markets = <<"m1">>
     /\ cycle_result.value.market_data["m1"] = 50)
    => /\ cycle_result.value.news_articles = <<"u1">>
       /\ Len(cycle_result.value.market_impacts) = 1
       /\ Len(cycle_result.value.opportunities) >= 1
       /\ Len(cycle_result.value.alerts) >= 1
       /\ cycle_result.value.cycle_end_time

\* C25: when an interrupt stops the loop while generate_alerts is in flight,
\* no alert that stage had already built is left in the persistence layer or
\* in the alert store.
C25_PartialAlertsDiscarded ==
    stop_reason = "interrupt" => cyc_partial \cap published = {}

----------------------------------------------------------------------------
(* Properties of repair_json *)

\* C26: for every JSON-serialisable object x, repair_json(json.dumps(x))
\* returns a value equal to x.
C26_RoundTrip ==
    (rj_x # NoValue /\ rj_result # NoRepair) => rj_result = Returned(rj_x)

\* The objects json.loads can give back: no tuple, and only strings as keys.
RECURSIVE IsJsonValue(_)
IsJsonValue(x) ==
    CASE x.t \in {"NoneType", "bool", "int", "str"} -> TRUE
      [] x.t = "list" -> \A i \in 1..Len(x.items) : IsJsonValue(x.items[i])
      [] x.t = "tuple" -> FALSE
      [] x.t = "dict" ->
            \A i \in 1..Len(x.pairs) :
                x.pairs[i][1].t = "str" /\ IsJsonValue(x.pairs[i][2])

\* C26, amended: for every object x built of None, booleans, integers,
\* strings, lists and dicts with string keys, repair_json(json.dumps(x))
\* returns a value equal to x, whatever a repair would make of its text.
C26_JsonValuesRoundTrip ==
    (rj_x # NoValue /\ rj_result # NoRepair /\ IsJsonValue(rj_x)) =>
        rj_result = Returned(rj_x)

C26_Witness ==
    /\ rj_x = PyDict(<< <<PyStr(<<"a">>),
                         PyList(<<PyStr(<<",", "}">>), PyStr(<<"a", "'", "s">>)>>)>> >>)
    /\ rj_result = Returned(rj_x)
    /\ json_loads(repair_trailing_commas(rj_text)).ok
    /\ json_loads(repair_trailing_commas(rj_text)).value # rj_x

\* Some attempt of repair_json, the text as given or one of its repairs,
\* parses.
Repairable(text) ==
    \/ json_loads(text).ok
    \/ \E k \in 1..Len(Repairs) : json_loads(apply_repair(Repairs[k], text)).ok

\* C27: for a response text that no repair turns into parseable JSON,
\* repair_json returns None and does not raise.
C27_UnrepairableGivesNone ==
    (rj_x = NoValue /\ rj_result # NoRepair /\ ~Repairable(rj_text)) =>
        rj_result = Returned(PyNone)

----------------------------------------------------------------------------
(* Properties of the Telegram broadcast *)

\* C30: a broadcast to N active subscribers makes one delivery attempt to
\* the own chat of each of them, whatever the outcome of the other
\* attempts, and reports success_count + failed_count = N.
C30_OneAttemptPerSubscriber ==
    bc_result.success =>
        /\ Len(bc_posts) = Len(bc_subscribers)
        /\ \A k \in 1..Len(bc_subscribers) : bc_posts[k] = bc_subscribers[k]
        /\ bc_result.success_count + bc_result.failed_count = Len(bc_subscribers)

====
